---- MODULE Spec2Model ----
(***************************************************************************)
(* A model of VagasScrap's aggregation core:                               *)
(*   - database.py  : the SQLite history (save_jobs, load_history,         *)
(*                    get_stats, delete_all), specification Spec;          *)
(*   - filters.py   : deduplicate, filter_remote, filter_by_skills,        *)
(*                    filter_by_seniority, apply_all_filters,              *)
(*                    specification FilterSpec;                            *)
(*   - gui.py, main.py : a search run of the window (_start_search,        *)
(*                    _run_search, run_task) and of the command line       *)
(*                    (cmd_search), specification RunSpec, and under       *)
(*                    fairness RunLiveSpec; the pool of _run_search with   *)
(*                    more tasks than threads, under fairness,             *)
(*                    specification PoolSpec;                              *)
(*   - scraper.py, posts_scraper.py, extra_scrapers.py : the entry points  *)
(*                    of the source adapters, specification AdapterSpec;   *)
(*                    the row limits of extra_scrapers.py and the paging   *)
(*                    loop of scrape_gupy, specification PagingSpec;       *)
(*   - recruiter.py : enrich_recruiter_info, specification RecruiterSpec.  *)
(*                                                                         *)
(* Text is modelled by TLA+ strings, handled character by character with   *)
(* Len and SubSeq.  Only ASCII is used in the module; the accented letters *)
(* of the Portuguese patterns are written with these stand-ins:            *)
(*      "[" = a-acute        "]" = A-acute                                 *)
(*      "$" = a-grave        "#" = A-grave                                 *)
(*      "^" = e-acute        "~" = E-acute                                 *)
(*      "{" = e-circumflex   "}" = E-circumflex                            *)
(*      "!" = i-acute        "?" = I-acute                                 *)
(*      "<" = u-acute        ">" = U-acute                                 *)
(* A DataFrame cell is a record [k, s] (text columns) or [k, b] (the       *)
(* boolean column): k = "str"/"bool" for a value, "none" for Python None   *)
(* (or SQL NULL), "nan" for float NaN.                                     *)
(***************************************************************************)
EXTENDS Integers, Sequences, FiniteSets, TLC

VARIABLES
    store,      \* database.py: the rows of table vagas, in insertion order
    clock,      \* database.py: datetime.now(), in whole seconds
    dbCall,     \* database.py: the last call of the module's API and its result
    fin,        \* filters.py: the DataFrame handed to the filter functions
    fcall,      \* filters.py: the last filter call, its arguments and its result
    frontend,   \* the program that runs: "gui" (gui.py) or "cli" (main.py)
    is_running, \* gui.py: VagasScrapGUI.is_running
    press,      \* gui.py: what the last press of the search button did
    params,     \* gui.py: the params _start_search hands to _run_search
    tasks,      \* gui.py: the list tasks of _run_search
    threads,    \* gui.py: for each task, where its run_task is and its locals
    completed_count, \* gui.py: the counter shared by the run_task calls
    lock,       \* gui.py: the task that holds lock, 0 if it is free
    events,     \* gui.py: the (completed, total) events posted so far
    finished,   \* gui.py: the tasks whose run_task has returned, in that order
    phase,      \* gui.py: where _run_search is
    merged,     \* gui.py: df of _run_search after pd.concat
    outcome,    \* gui.py: how the run ended
    calls,      \* the adapter calls made for the run, in the order made
    io,         \* gui.py, main.py: sys.stdout, df after the filters, the calls of
                \* save_jobs and the files written by the run
    acall,      \* the last call of a source adapter, its environment and its outcome
    rcall       \* recruiter.py: the last call of the module and its result

dbVars == <<store, clock, dbCall>>
filterVars == <<fin, fcall>>
runVars == <<frontend, is_running, press, params, tasks, threads, completed_count,
             lock, events, finished, phase, merged, outcome, calls, io>>

\* The variables of the parts other than database.py and filters.py
otherVars == <<runVars, acall, rcall>>

vars == <<dbVars, filterVars, otherVars>>

\* No run was asked for
NoParams ==
    [search_terms |-> <<>>, sites |-> <<>>, extra_sources |-> <<>>,
     post_platforms |-> <<>>, seniority |-> <<>>]

\* No _run_search thread is alive, sys.stdout is the console, nothing was
\* filtered, saved or written; presses is the parity of the number of
\* presses of the search button
NoIo ==
    [presses |-> 0, runs |-> 0,
     stdout |-> "console", old_stdout |-> "console", merge |-> "none",
     filters |-> "none", df |-> <<>>,
     save_jobs |-> <<>>, files |-> <<>>]

NoRun ==
    /\ is_running = FALSE
    /\ press = [result |-> "none", terms |-> <<>>, sources |-> {}, seniority |-> {}]
    /\ params = NoParams
    /\ tasks = <<>>
    /\ threads = <<>>
    /\ completed_count = 0
    /\ lock = 0
    /\ events = <<>>
    /\ finished = <<>>
    /\ phase = "idle"
    /\ merged = <<>>
    /\ outcome = "none"
    /\ calls = <<>>
    /\ io = NoIo

\* The parts other than database.py and filters.py are not running
OtherIdle == frontend = "none" /\ NoRun /\ acall = <<>> /\ rcall = <<>>

(***************************************************************************)
(* Cells                                                                   *)
(***************************************************************************)
Str(s) == [k |-> "str", s |-> s]
None == [k |-> "none", s |-> ""]
NaN == [k |-> "nan", s |-> ""]
Bool(b) == [k |-> "bool", b |-> b]
NoneB == [k |-> "none", b |-> FALSE]
NaNB == [k |-> "nan", b |-> FALSE]

\* SQL NULL, as sqlite3 binds Python None
NULL == None

(***************************************************************************)
(* Strings                                                                 *)
(***************************************************************************)
Whitespace == {" ", "\t", "\n"}

CharAt(s, i) == SubSeq(s, i, i)

\* str.strip(): leading and trailing whitespace removed
RECURSIVE LStrip(_)
LStrip(s) ==
    IF Len(s) > 0 /\ CharAt(s, 1) \in Whitespace
    THEN LStrip(SubSeq(s, 2, Len(s)))
    ELSE s

RECURSIVE RStrip(_)
RStrip(s) ==
    IF Len(s) > 0 /\ CharAt(s, Len(s)) \in Whitespace
    THEN RStrip(SubSeq(s, 1, Len(s) - 1))
    ELSE s

Strip(s) == LStrip(RStrip(s))

\* str(val) of a cell that is not None
PyStr(c) == IF c.k = "nan" THEN "nan" ELSE c.s

(***************************************************************************)
(* database.py                                                             *)
(***************************************************************************)

\* Bound of the model: the rows the table may hold (no call of save_jobs
\* goes beyond it)
MaxStore == 2

\* load_history's default limit
DefaultLimit == 1000

\* _str: None for a missing value, else the stripped text unless it is
\* empty, "nan" or "None"
DbStr(val) ==
    IF val.k = "none"
    THEN NULL
    ELSE LET s == Strip(PyStr(val))
         IN  IF s \in {"", "nan", "None"} THEN NULL ELSE Str(s)

\* bool(val) of a cell of column remoto: None is falsy, NaN (a non-zero
\* float) is truthy
PyBool(val) ==
    CASE val.k = "bool" -> val.b
      [] val.k = "none" -> FALSE
      [] val.k = "nan" -> TRUE

\* The tuple of values save_jobs binds to the INSERT for one DataFrame row.
\* (localizacao, tipo_vaga, salario_min, salario_max, moeda, data_postagem
\* and nome_recrutador are bound the same way as site and are left out.)
InsertValues(row, search_term, coleta) ==
    [link |-> DbStr(row.link),
     site |-> DbStr(row.site),
     titulo |-> DbStr(row.titulo),
     empresa |-> DbStr(row.empresa),
     remoto |-> IF PyBool(row.remoto) THEN 1 ELSE 0,
     email_recrutador |-> DbStr(row.email_recrutador),
     termo_busca |-> Str(search_term),
     data_coleta |-> coleta]

\* A table without the UNIQUE constraint on link (used to test C4)
UniqueConflictNoConstraint(table, r) == FALSE

\* link TEXT UNIQUE: a new row conflicts when its link is not NULL and a
\* stored row has the same link (SQLite holds NULLs to be distinct)
UniqueConflict(table, r) ==
    /\ r.link # NULL
    /\ \E i \in 1..Len(table) : table[i].link = r.link

\* INSERT OR REPLACE: the stored rows the new row conflicts with are
\* deleted and the new row is appended
InsertOrReplace(table, r) ==
    Append(SelectSeq(table, LAMBDA old : r.link = NULL \/ old.link # r.link), r)

\* INSERT OR IGNORE INTO vagas ...: the row is appended unless it conflicts
InsertOrIgnore(table, r) ==
    IF UniqueConflict(table, r) THEN table ELSE Append(table, r)

\* A count of the rows attempted instead of the rows changed (used to test C3)
ChangesAttempted(before, after) == 1

\* SELECT changes() after the INSERT OR IGNORE
Changes(before, after) == Len(after) - Len(before)

\* The loop of save_jobs over df.iterrows(), from row i on: the table and
\* the count of inserted rows
RECURSIVE SaveLoop(_, _, _, _, _, _)
SaveLoop(table, df, i, search_term, coleta, inserted) ==
    IF i > Len(df)
    THEN [table |-> table, inserted |-> inserted]
    ELSE LET after == InsertOrIgnore(table, InsertValues(df[i], search_term, coleta))
         IN  SaveLoop(after, df, i + 1, search_term, coleta,
                      IF Changes(table, after) # 0 THEN inserted + 1 ELSE inserted)

\* save_jobs(df, search_term) at wall-clock time now
SaveJobsResult(table, df, search_term, now) ==
    IF df = <<>>
    THEN [table |-> table, inserted |-> 0]
    ELSE SaveLoop(table, df, 1, search_term, now, 0)

\* The loop of save_jobs when conn.execute raises for the rows in failing
\* (database locked or corrupt): except Exception: pass goes on to the
\* next row
RECURSIVE SaveLoopFailing(_, _, _, _, _, _, _)
SaveLoopFailing(table, df, i, search_term, coleta, inserted, failing) ==
    IF i > Len(df)
    THEN [table |-> table, inserted |-> inserted, raised |-> FALSE]
    ELSE IF i \in failing
         THEN SaveLoopFailing(table, df, i + 1, search_term, coleta, inserted, failing)
         ELSE LET after == InsertOrIgnore(table, InsertValues(df[i], search_term, coleta))
              IN  SaveLoopFailing(after, df, i + 1, search_term, coleta,
                                  IF Changes(table, after) # 0 THEN inserted + 1 ELSE inserted,
                                  failing)

\* Where the storage fails during a call of save_jobs: when the database is
\* opened (init_db, _connect) or when a row is inserted
FailurePoints == {"connect", "execute"}

\* save_jobs(df, search_term) with a failing storage: an error of init_db
\* or _connect is raised to the caller, one of an INSERT is not
SaveJobsFailing(table, df, search_term, now, at, failing) ==
    IF at = "connect"
    THEN [table |-> table, inserted |-> 0, raised |-> TRUE]
    ELSE SaveLoopFailing(table, df, 1, search_term, now, 0, failing)

\* ASCII lower case, the only case folding SQLite's LIKE does
UpperAscii == "ABCDEFGHIJKLMNOPQRSTUVWXYZ"
LowerAscii == "abcdefghijklmnopqrstuvwxyz"

AsciiLower(c) ==
    IF \E i \in 1..Len(UpperAscii) : CharAt(UpperAscii, i) = c
    THEN CharAt(LowerAscii, CHOOSE i \in 1..Len(UpperAscii) : CharAt(UpperAscii, i) = c)
    ELSE c

\* text LIKE pattern in SQLite: % matches any run of characters, _ any one
\* character, letters regardless of ASCII case
RECURSIVE Like(_, _)
Like(text, pattern) ==
    IF pattern = ""
    THEN text = ""
    ELSE LET c == CharAt(pattern, 1)
             rest == SubSeq(pattern, 2, Len(pattern))
         IN  CASE c = "%" ->
                    \E k \in 0..Len(text) : Like(SubSeq(text, k + 1, Len(text)), rest)
               [] c = "_" ->
                    Len(text) > 0 /\ Like(SubSeq(text, 2, Len(text)), rest)
               [] OTHER ->
                    /\ Len(text) > 0
                    /\ AsciiLower(CharAt(text, 1)) = AsciiLower(c)
                    /\ Like(SubSeq(text, 2, Len(text)), rest)

\* The postings save_jobs is called with: two with the same link up to
\* surrounding blanks and different fields otherwise, one with another
\* link, and two whose link is missing (None, blank)
DbPosting(link, site, titulo, empresa, remoto, email) ==
    [link |-> link, site |-> site, titulo |-> titulo, empresa |-> empresa,
     remoto |-> remoto, email_recrutador |-> email]

DbNoLink(link) == DbPosting(link, Str("gupy"), Str("Tester"), None, NoneB, None)

DbPostings ==
    {DbPosting(Str("a"), Str("gupy"), Str("Dev"), Str("Acme"), Bool(TRUE), Str("j@x.io")),
     DbPosting(Str(" a "), Str("remoteok"), Str("QA"), None, Bool(FALSE), None),
     DbPosting(Str("b"), Str("post_x"), Str("dev ops"), Str("Bit"), NaNB, Str("")),
     DbNoLink(None), DbNoLink(Str(" \t"))}

\* The DataFrames save_jobs is called with: the empty one, and those of one
\* or two postings
DbFrames ==
    {<<>>} \cup {<<p>> : p \in DbPostings} \cup {<<p, q>> : p, q \in DbPostings}

\* The wall clock's seconds: two saves happen in the same second or not
Seconds == {0, 1}

SearchTerms == {"python", "java dev"}
\* The text typed in the history window's filter entry: none, a word, and
\* one of the two characters LIKE reads as a wildcard
SearchFilters == {"", "dev", "_"}
SiteFilters == {"Todos", "gupy"}
Limits == {1, DefaultLimit}

\* The texts a stored row may hold in a column LIKE is applied to, and the
\* patterns load_history builds
StoredTexts ==
    {c.s : c \in ({InsertValues(p, t, 0).titulo : p \in DbPostings, t \in SearchTerms}
                  \cup {InsertValues(p, t, 0).empresa : p \in DbPostings, t \in SearchTerms}
                  \cup {Str(t) : t \in SearchTerms}) \ {NULL}}

\* Like on the texts and patterns of the model, evaluated once
LikeTable ==
    [text \in StoredTexts, pattern \in {"%" \o f \o "%" : f \in SearchFilters} |->
        Like(text, pattern)]

\* column LIKE ? on a nullable column: NULL LIKE x is NULL, which WHERE rejects
SqlLikeStored(cell, pattern) == cell # NULL /\ LikeTable[cell.s, pattern]

\* The WHERE clause load_history builds
LoadWhere(r, search_filter, site_filter) ==
    /\ search_filter # "" =>
          LET like == "%" \o search_filter \o "%"
          IN  \/ SqlLikeStored(r.titulo, like)
              \/ SqlLikeStored(r.empresa, like)
              \/ SqlLikeStored(r.termo_busca, like)
    /\ (site_filter # "" /\ site_filter # "Todos") => r.site = Str(site_filter)

\* LIMIT n: a negative n is no limit
SqlLimit(limit, n) == IF limit < 0 \/ limit > n THEN n ELSE limit

\* The results load_history may return: the first rows, up to the limit, of
\* the matching rows in some order of non-increasing data_coleta (SQL leaves
\* the order of rows with equal data_coleta open)
LoadHistoryResults(table, limit, search_filter, site_filter) ==
    LET M == {i \in 1..Len(table) : LoadWhere(table[i], search_filter, site_filter)}
        n == SqlLimit(limit, Cardinality(M))
        picks == {f \in [1..n -> M] :
                    /\ \A i, j \in 1..n : i < j =>
                          /\ f[i] # f[j]
                          /\ table[f[i]].data_coleta >= table[f[j]].data_coleta
                    /\ \A m \in M : (\A i \in 1..n : f[i] # m) =>
                          \A i \in 1..n : table[f[i]].data_coleta >= table[m].data_coleta}
    IN  {[i \in 1..n |-> table[f[i]]] : f \in picks}

\* An optional integer: MAX(data_coleta) of an empty table is NULL
IntCell(n) == [k |-> "int", n |-> n]
NoneInt == [k |-> "none", n |-> 0]

SetMax(S) == CHOOSE x \in S : \A y \in S : y <= x

\* get_stats(): the four aggregates (sites as the set of (site, count)
\* pairs; the order of the list, by count, is not represented)
GetStatsResult(table) ==
    LET idx == 1..Len(table)
    IN  [total |-> Len(table),
         sites |-> {<<table[i].site, Cardinality({j \in idx : table[j].site = table[i].site})>> :
                       i \in idx},
         last_search |-> IF Len(table) = 0
                         THEN NoneInt
                         ELSE IntCell(SetMax({table[i].data_coleta : i \in idx})),
         with_email |-> Cardinality({i \in idx :
                           table[i].email_recrutador # NULL /\ table[i].email_recrutador.s # ""})]

\* delete_all(): DELETE FROM vagas
DeleteAllResult(table) == <<>>

NoStats == [total |-> 0, sites |-> {}, last_search |-> NoneInt, with_email |-> 0]

\* The record of a call: its arguments, what it returned, and the number
\* of stored rows before it; par flips on every call
DbCall(op, df, term, limit, search_filter, site_filter, inserted, rows, stats) ==
    [op |-> op, par |-> 1 - dbCall.par, totalBefore |-> Len(store),
     df |-> df, search_term |-> term,
     limit |-> limit, search_filter |-> search_filter, site_filter |-> site_filter,
     inserted |-> inserted, rows |-> rows, stats |-> stats,
     failed |-> FALSE, raised |-> FALSE]

DbInit ==
    /\ store = <<>>
    /\ clock = 0
    /\ dbCall = [op |-> "none", par |-> 0, totalBefore |-> 0,
                 df |-> <<>>, search_term |-> "",
                 limit |-> 0, search_filter |-> "", site_filter |-> "",
                 inserted |-> 0, rows |-> <<>>, stats |-> NoStats,
                 failed |-> FALSE, raised |-> FALSE]

\* The wall clock advances
Tick ==
    /\ clock + 1 \in Seconds
    /\ clock' = clock + 1
    /\ UNCHANGED <<store, dbCall>>
    /\ UNCHANGED <<filterVars, otherVars>>

SaveJobs ==
    \E df \in DbFrames, term \in SearchTerms :
        /\ LET res == SaveJobsResult(store, df, term, clock)
           IN  /\ Len(res.table) <= MaxStore
               /\ store' = res.table
               /\ dbCall' = DbCall("save_jobs", df, term, 0, "", "", res.inserted, <<>>, NoStats)
        /\ UNCHANGED clock
        /\ UNCHANGED <<filterVars, otherVars>>

\* The DataFrames save_jobs is called with while the storage fails: those
\* of one or two postings with the links "a" and "b"
StoreFailFrames ==
    {df \in DbFrames : df # <<>> /\ \A i \in 1..Len(df) : df[i].link \in {Str("a"), Str("b")}}

\* save_jobs is called with a non-empty DataFrame while the storage fails
SaveJobsStoreFails ==
    \E df \in StoreFailFrames, term \in SearchTerms, at \in FailurePoints :
        \E failing \in (SUBSET (1..Len(df))) \ {{}} :
            /\ LET res == SaveJobsFailing(store, df, term, clock, at, failing)
               IN  /\ Len(res.table) <= MaxStore
                   /\ store' = res.table
                   /\ dbCall' = [DbCall("save_jobs", df, term, 0, "", "", res.inserted,
                                        <<>>, NoStats)
                                    EXCEPT !.failed = TRUE, !.raised = res.raised]
            /\ UNCHANGED clock
            /\ UNCHANGED <<filterVars, otherVars>>

LoadHistory ==
    \E limit \in Limits, search_filter \in SearchFilters, site_filter \in SiteFilters :
        \E rows \in LoadHistoryResults(store, limit, search_filter, site_filter) :
            /\ dbCall' = DbCall("load_history", <<>>, "", limit, search_filter, site_filter,
                                0, rows, NoStats)
            /\ UNCHANGED <<store, clock>>
            /\ UNCHANGED <<filterVars, otherVars>>

GetStats ==
    /\ dbCall' = DbCall("get_stats", <<>>, "", 0, "", "", 0, <<>>, GetStatsResult(store))
    /\ UNCHANGED <<store, clock>>
    /\ UNCHANGED <<filterVars, otherVars>>

DeleteAll ==
    /\ store' = DeleteAllResult(store)
    /\ dbCall' = DbCall("delete_all", <<>>, "", 0, "", "", 0, <<>>, NoStats)
    /\ UNCHANGED clock
    /\ UNCHANGED <<filterVars, otherVars>>

Init ==
    /\ DbInit
    /\ fin = <<>>
    /\ fcall = <<>>
    /\ OtherIdle

Next == Tick \/ SaveJobs \/ SaveJobsStoreFails \/ LoadHistory \/ GetStats \/ DeleteAll

Spec == Init /\ [][Next]_vars

(***************************************************************************)
(* Claims about database.py, checked under Spec                            *)
(***************************************************************************)

\* A step that is a call of save_jobs
IsSaveStep == dbCall'.par # dbCall.par /\ dbCall'.op = "save_jobs"

\* The link of a posting is missing: None, NaN, empty or blank
LinkMissing(posting) ==
    \/ posting.link.k \in {"none", "nan"}
    \/ Strip(posting.link.s) = ""

\* The links stored in the first n rows of a table
StoredLinks(table, n) == {table[i].link : i \in 1..n} \ {NULL}

\* C1 (as claimed): when save_jobs is called twice in a row with the same
\* postings and search term, the second call returns 0 and leaves the
\* number of stored rows unchanged.
C1_SecondSaveAddsNothing ==
    [][(/\ IsSaveStep
        /\ dbCall.op = "save_jobs"
        /\ dbCall'.df = dbCall.df
        /\ dbCall'.search_term = dbCall.search_term)
       => (dbCall'.inserted = 0 /\ Len(store') = Len(store))]_vars

\* C2 (as claimed): save_jobs skips a posting whose link is missing: the
\* rows a call adds all carry a link, the returned count is the number of
\* links of the call that were not stored before, and every posting of the
\* call that has a link is stored after it.
C2_MissingLinkSkipped ==
    dbCall.op = "save_jobs" =>
        LET df == dbCall.df
            present == {i \in 1..Len(df) : ~LinkMissing(df[i])}
            before == StoredLinks(store, dbCall.totalBefore)
        IN  /\ \A j \in (dbCall.totalBefore + 1)..Len(store) : store[j].link # NULL
            /\ dbCall.inserted = Cardinality({DbStr(df[i].link) : i \in present} \ before)
            /\ \A i \in present : DbStr(df[i].link) \in StoredLinks(store, Len(store))

\* C3: the count save_jobs returns is the number of rows the call added to
\* the table (get_stats' total after the call minus the total before it);
\* for an empty DataFrame it returns 0 and the table is unchanged.
C3_CountIsRowsAdded ==
    [][IsSaveStep =>
        /\ dbCall'.inserted = GetStatsResult(store').total - GetStatsResult(store).total
        /\ dbCall'.df = <<>> => (dbCall'.inserted = 0 /\ store' = store)]_vars

\* C3's case: a call whose DataFrame holds the same link twice, made on a
\* table that is not empty, counted fewer rows than it was given
C3_Witness ==
    /\ dbCall.op = "save_jobs"
    /\ dbCall.totalBefore > 0
    /\ dbCall.inserted < Len(dbCall.df)
    /\ \E i, j \in 1..Len(dbCall.df) :
          i < j /\ DbStr(dbCall.df[i].link) # NULL
                /\ DbStr(dbCall.df[i].link) = DbStr(dbCall.df[j].link)

\* No two stored rows carry the same link
UniqueLinks ==
    \A i, j \in 1..Len(store) :
        (i < j /\ store[i].link # NULL) => store[i].link # store[j].link

\* C4: in every reachable state of the table no two stored rows have the
\* same link (rows stored without a link carry none), and a call of
\* save_jobs leaves every row stored before it as it was and adds no row
\* for a link that was stored already.
C4_LinkUnique ==
    /\ []UniqueLinks
    /\ [][IsSaveStep =>
            /\ Len(store') >= Len(store)
            /\ SubSeq(store', 1, Len(store)) = store
            /\ \A j \in (Len(store) + 1)..Len(store') :
                  store'[j].link \notin StoredLinks(store, Len(store))]_vars

\* C4's case: a call offered a link that was already stored, and two rows
\* with different links are stored
C4_Witness ==
    /\ dbCall.op = "save_jobs"
    /\ \E i \in 1..Len(dbCall.df) :
          DbStr(dbCall.df[i].link) \in StoredLinks(store, dbCall.totalBefore)
    /\ Cardinality(StoredLinks(store, Len(store))) >= 2

(***************************************************************************)
(* Regular expressions, as far as filters.py uses them: re.compile(p,      *)
(* re.IGNORECASE) and Series.str.contains, which is re.search.  A pattern  *)
(* is a term; Ends gives the positions where a match of the term that      *)
(* starts after position i of the text may end.                            *)
(***************************************************************************)
DigitChars == {"0", "1", "2", "3", "4", "5", "6", "7", "8", "9"}

\* The accented letters (see the head of the module), lower and upper case
LowerAccents == "[$^{!<"
UpperAccents == "]#~}?>"

Chars(s) == {CharAt(s, i) : i \in 1..Len(s)}

IndexOf(s, c) == CHOOSE i \in 1..Len(s) : CharAt(s, i) = c

\* str.lower() of one character
Lower(c) ==
    CASE c \in Chars(UpperAscii) -> CharAt(LowerAscii, IndexOf(UpperAscii, c))
      [] c \in Chars(UpperAccents) -> CharAt(LowerAccents, IndexOf(UpperAccents, c))
      [] OTHER -> c

\* \w: letters, digits and the underscore
WordChars ==
    Chars(LowerAscii) \cup Chars(UpperAscii) \cup Chars(LowerAccents)
        \cup Chars(UpperAccents) \cup DigitChars \cup {"_"}

Lit(c) == [t |-> "lit", c |-> c]
In(cs) == [t |-> "in", cs |-> cs]
WordB == [t |-> "b"]
Cat(rs) == [t |-> "cat", rs |-> rs]
Alt(rs) == [t |-> "alt", rs |-> rs]
Opt(r) == [t |-> "opt", r |-> r]
Many(lo, r) == [t |-> "many", lo |-> lo, r |-> r]
Text(s) == Cat([i \in 1..Len(s) |-> Lit(CharAt(s, i))])

\* \b after position i: exactly one of the characters around it is a word
\* character
AtWordBoundary(text, i) ==
    LET before == i >= 1 /\ CharAt(text, i) \in WordChars
        after == i < Len(text) /\ CharAt(text, i + 1) \in WordChars
    IN  before # after

RECURSIVE Ends(_, _, _), CatEnds(_, _, _, _), ManyEnds(_, _, _, _)

Ends(re, text, i) ==
    CASE re.t = "lit" ->
            IF i < Len(text) /\ Lower(CharAt(text, i + 1)) = Lower(re.c)
            THEN {i + 1} ELSE {}
      [] re.t = "in" ->
            IF i < Len(text) /\ Lower(CharAt(text, i + 1)) \in {Lower(c) : c \in re.cs}
            THEN {i + 1} ELSE {}
      [] re.t = "b" -> IF AtWordBoundary(text, i) THEN {i} ELSE {}
      [] re.t = "cat" -> CatEnds(re.rs, 1, text, {i})
      [] re.t = "alt" -> UNION {Ends(re.rs[k], text, i) : k \in 1..Len(re.rs)}
      [] re.t = "opt" -> {i} \cup Ends(re.r, text, i)
      [] re.t = "many" -> ManyEnds(re, text, {i}, 0)

\* The terms rs[k], rs[k+1], ... in a row, started at any position of from
CatEnds(rs, k, text, from) ==
    IF k > Len(rs) \/ from = {}
    THEN from
    ELSE CatEnds(rs, k + 1, text, UNION {Ends(rs[k], text, i) : i \in from})

\* re.r repeated: from holds the positions reached after n repetitions
ManyEnds(re, text, from, n) ==
    IF from = {}
    THEN {}
    ELSE (IF n >= re.lo THEN from ELSE {})
            \cup ManyEnds(re, text, UNION {Ends(re.r, text, i) \ {i} : i \in from}, n + 1)

\* re.search(text) finds a match
Search(re, text) == \E i \in 0..Len(text) : Ends(re, text, i) # {}

\* re.escape(s): every character of s taken literally
Escape(s) == Text(s)

(***************************************************************************)
(* filters.py: the seniority vocabulary                                    *)
(***************************************************************************)
\* SENIORITY_KEYWORDS["trainee"]
TraineePatterns ==
    <<
      \* \btrainee\b
      Cat(<<WordB, Text("trainee"), WordB>>),
      \* \bestagi[a[]ri[oa]?\b
      Cat(<<WordB, Text("estagi"), In({"a", "["}), Text("ri"), Opt(In({"o", "a"})), WordB>>),
      \* \best[a[]gio\b
      Cat(<<WordB, Text("est"), In({"a", "["}), Text("gio"), WordB>>),
      \* \bstage\b
      Cat(<<WordB, Text("stage"), WordB>>),
      \* \bintern(?:ship)?\b
      Cat(<<WordB, Text("intern"), Opt(Text("ship")), WordB>>),
      \* \baprendiz\b
      Cat(<<WordB, Text("aprendiz"), WordB>>),
      \* \bjovem\s+aprendiz\b
      Cat(<<WordB, Text("jovem"), Many(1, In(Whitespace)), Text("aprendiz"), WordB>>),
      \* \bprograma\s+de\s+est[a[]gio\b
      Cat(<<WordB, Text("programa"), Many(1, In(Whitespace)), Text("de"), Many(1, In(Whitespace)), Text("est"), In({"a", "["}), Text("gio"), WordB>>) >>

\* SENIORITY_KEYWORDS["junior"]
JuniorPatterns ==
    <<
      \* \bj[u<]nior\b
      Cat(<<WordB, Lit("j"), In({"u", "<"}), Text("nior"), WordB>>),
      \* \bjr\.?\b
      Cat(<<WordB, Text("jr"), Opt(Lit(".")), WordB>>),
      \* \bentry[\s\-]?level\b
      Cat(<<WordB, Text("entry"), Opt(In({"-"} \cup Whitespace)), Text("level"), WordB>>),
      \* \brec[e^]m[\s\-]?formad[oa]\b
      Cat(<<WordB, Text("rec"), In({"e", "^"}), Lit("m"), Opt(In({"-"} \cup Whitespace)), Text("formad"), In({"o", "a"}), WordB>>),
      \* \bsem\s+experi[e{]ncia\b
      Cat(<<WordB, Text("sem"), Many(1, In(Whitespace)), Text("experi"), In({"e", "{"}), Text("ncia"), WordB>>),
      \* \bpouca\s+experi[e{]ncia\b
      Cat(<<WordB, Text("pouca"), Many(1, In(Whitespace)), Text("experi"), In({"e", "{"}), Text("ncia"), WordB>>),
      \* \biniciante\b
      Cat(<<WordB, Text("iniciante"), WordB>>),
      \* \bprimeiro\s+emprego\b
      Cat(<<WordB, Text("primeiro"), Many(1, In(Whitespace)), Text("emprego"), WordB>>),
      \* \bn[i!]vel\s+inicial\b
      Cat(<<WordB, Lit("n"), In({"i", "!"}), Text("vel"), Many(1, In(Whitespace)), Text("inicial"), WordB>>),
      \* \bn[i!]vel\s+j[u<]nior\b
      Cat(<<WordB, Lit("n"), In({"i", "!"}), Text("vel"), Many(1, In(Whitespace)), Lit("j"), In({"u", "<"}), Text("nior"), WordB>>),
      \* \b0\s*[a$]\s*2\s+anos?\b
      Cat(<<WordB, Lit("0"), Many(0, In(Whitespace)), In({"a", "$"}), Many(0, In(Whitespace)), Lit("2"), Many(1, In(Whitespace)), Text("ano"), Opt(Lit("s")), WordB>>),
      \* \bat[e^]\s+2\s+anos?\b
      Cat(<<WordB, Text("at"), In({"e", "^"}), Many(1, In(Whitespace)), Lit("2"), Many(1, In(Whitespace)), Text("ano"), Opt(Lit("s")), WordB>>),
      \* \bat[e^]\s+1\s+ano\b
      Cat(<<WordB, Text("at"), In({"e", "^"}), Many(1, In(Whitespace)), Lit("1"), Many(1, In(Whitespace)), Text("ano"), WordB>>),
      \* \bjovem\s+profissional\b
      Cat(<<WordB, Text("jovem"), Many(1, In(Whitespace)), Text("profissional"), WordB>>),
      \* \bjovem\s+talento\b
      Cat(<<WordB, Text("jovem"), Many(1, In(Whitespace)), Text("talento"), WordB>>),
      \* \bearly[\s\-]?career\b
      Cat(<<WordB, Text("early"), Opt(In({"-"} \cup Whitespace)), Text("career"), WordB>>),
      \* \bformand[oa]\b
      Cat(<<WordB, Text("formand"), In({"o", "a"}), WordB>>),
      \* \bjunior\s+developer\b
      Cat(<<WordB, Text("junior"), Many(1, In(Whitespace)), Text("developer"), WordB>>),
      \* \bjunior\s+dev\b
      Cat(<<WordB, Text("junior"), Many(1, In(Whitespace)), Text("dev"), WordB>>),
      \* \bdev\s+j[u<]nior\b
      Cat(<<WordB, Text("dev"), Many(1, In(Whitespace)), Lit("j"), In({"u", "<"}), Text("nior"), WordB>>) >>

\* SENIORITY_KEYWORDS["pleno"]
PlenoPatterns ==
    <<
      \* \bpleno\b
      Cat(<<WordB, Text("pleno"), WordB>>),
      \* \bn!vel\s+pleno\b
      Cat(<<WordB, Text("n!vel"), Many(1, In(Whitespace)), Text("pleno"), WordB>>),
      \* \bmid[\s\-]?level\b
      Cat(<<WordB, Text("mid"), Opt(In({"-"} \cup Whitespace)), Text("level"), WordB>>),
      \* \bmiddle\b
      Cat(<<WordB, Text("middle"), WordB>>),
      \* \bintermedi[a[]ri[oa]\b
      Cat(<<WordB, Text("intermedi"), In({"a", "["}), Text("ri"), In({"o", "a"}), WordB>>),
      \* \b[23]\s*[a$]\s*5\s+anos?\b
      Cat(<<WordB, In({"2", "3"}), Many(0, In(Whitespace)), In({"a", "$"}), Many(0, In(Whitespace)), Lit("5"), Many(1, In(Whitespace)), Text("ano"), Opt(Lit("s")), WordB>>),
      \* \b2\+\s*anos?\b
      Cat(<<WordB, Text("2+"), Many(0, In(Whitespace)), Text("ano"), Opt(Lit("s")), WordB>>),
      \* \banalista\b
      Cat(<<WordB, Text("analista"), WordB>>) >>

\* SENIORITY_KEYWORDS["senior"]
SeniorPatterns ==
    <<
      \* \bs[e{]nior\b
      Cat(<<WordB, Lit("s"), In({"e", "{"}), Text("nior"), WordB>>),
      \* \bsr\.?\b
      Cat(<<WordB, Text("sr"), Opt(Lit(".")), WordB>>),
      \* \bn[i!]vel\s+s[e{]nior\b
      Cat(<<WordB, Lit("n"), In({"i", "!"}), Text("vel"), Many(1, In(Whitespace)), Lit("s"), In({"e", "{"}), Text("nior"), WordB>>),
      \* \bespecialista\b
      Cat(<<WordB, Text("especialista"), WordB>>),
      \* \btech\s+lead\b
      Cat(<<WordB, Text("tech"), Many(1, In(Whitespace)), Text("lead"), WordB>>),
      \* \bengenheiro\s+s[e{]nior\b
      Cat(<<WordB, Text("engenheiro"), Many(1, In(Whitespace)), Lit("s"), In({"e", "{"}), Text("nior"), WordB>>),
      \* \b5\s*\+\s*anos?\b
      Cat(<<WordB, Lit("5"), Many(0, In(Whitespace)), Lit("+"), Many(0, In(Whitespace)), Text("ano"), Opt(Lit("s")), WordB>>),
      \* \bmais\s+de\s+5\s+anos?\b
      Cat(<<WordB, Text("mais"), Many(1, In(Whitespace)), Text("de"), Many(1, In(Whitespace)), Lit("5"), Many(1, In(Whitespace)), Text("ano"), Opt(Lit("s")), WordB>>),
      \* \b6\s*[a$]\s*\d+\s+anos?\b
      Cat(<<WordB, Lit("6"), Many(0, In(Whitespace)), In({"a", "$"}), Many(0, In(Whitespace)), Many(1, In(DigitChars)), Many(1, In(Whitespace)), Text("ano"), Opt(Lit("s")), WordB>>),
      \* \bprincipal\s+engineer\b
      Cat(<<WordB, Text("principal"), Many(1, In(Whitespace)), Text("engineer"), WordB>>),
      \* \bstaff\s+engineer\b
      Cat(<<WordB, Text("staff"), Many(1, In(Whitespace)), Text("engineer"), WordB>>),
      \* \barchitect\b
      Cat(<<WordB, Text("architect"), WordB>>),
      \* \barquiteto\b
      Cat(<<WordB, Text("arquiteto"), WordB>>),
      \* \blead\s+developer\b
      Cat(<<WordB, Text("lead"), Many(1, In(Whitespace)), Text("developer"), WordB>>),
      \* \blead\s+dev\b
      Cat(<<WordB, Text("lead"), Many(1, In(Whitespace)), Text("dev"), WordB>>) >>

SENIORITY_KEYWORDS ==
    [trainee |-> TraineePatterns, junior |-> JuniorPatterns,
     pleno |-> PlenoPatterns, senior |-> SeniorPatterns]

(***************************************************************************)
(* filters.py: the DataFrames the filters are given                        *)
(*                                                                         *)
(* A DataFrame is [columns, rows]; a row is a record of cells, with NaN in *)
(* a column the DataFrame does not have.  rid is the position the row had  *)
(* in the DataFrame handed to the filter: it tells which copy of a row an  *)
(* output holds and is no column of the DataFrame.                         *)
(***************************************************************************)

\* Bound of the model: the rows of a DataFrame handed to the filters
MaxRows == 3

FilterColumns == {"link", "site", "titulo", "descricao", "remoto"}

Posting(link, site, titulo, descricao, remoto) ==
    [link |-> link, site |-> site, titulo |-> titulo, descricao |-> descricao,
     remoto |-> remoto]

\* The postings of the model: three with the same link (two from job
\* boards, one from a post source), one with another link, two without link
FilterPostings ==
    {Posting(Str("a"), Str("gupy"), Str("Engenheiro S{nior Backend"), Str("Django REST"),
             Bool(TRUE)),
     Posting(Str("a"), Str("remoteok"), Str("Est[gio em Desenvolvimento"), None,
             Bool(FALSE)),
     Posting(Str("a"), Str("post_twitter"), Str("vaga Python JR."), Str("Seniority matters"),
             Bool(TRUE)),
     Posting(Str("b"), Str("post_linkedin"), NaN, Str("Analista PL/SQL, 2+ anos"), NaNB),
     Posting(None, None, Str("Tech  Lead"), NaN, Bool(FALSE)),
     Posting(None, Str("gupy"), Str("dev sr.x"), Str(""), NoneB)}

\* The sets of columns of the model: all; without site; without link; link alone
ColumnSets ==
    {FilterColumns, FilterColumns \ {"site"}, FilterColumns \ {"link"}, {"link"}}

\* A row of a DataFrame with the given columns
RowOf(posting, columns, rid) ==
    [rid |-> rid,
     link |-> IF "link" \in columns THEN posting.link ELSE NaN,
     site |-> IF "site" \in columns THEN posting.site ELSE NaN,
     titulo |-> IF "titulo" \in columns THEN posting.titulo ELSE NaN,
     descricao |-> IF "descricao" \in columns THEN posting.descricao ELSE NaN,
     remoto |-> IF "remoto" \in columns THEN posting.remoto ELSE NaNB]

Frames ==
    {[columns |-> cs, rows |-> [i \in 1..n |-> RowOf(ps[i], cs, i)]] :
        <<cs, n, ps>> \in {<<cs, n, ps>> \in ColumnSets \X (0..MaxRows) \X
                               [1..MaxRows -> FilterPostings] :
                               \A i \in (n + 1)..MaxRows : ps[i] = ps[1]}}

\* An optional list argument: None or a list
NoList == [k |-> "none", v |-> <<>>]
List(v) == [k |-> "list", v |-> v]

\* Python's truth value of it: None and the empty list are false
Truthy(opt) == opt.k = "list" /\ opt.v # <<>>

\* The skills and seniority arguments of the model
SkillOptions ==
    {NoList, List(<<" ", "">>), List(<<"python", "django">>), List(<<" rest ">>)}

SeniorityOptions ==
    {NoList, List(<<>>), List(<<"senior">>), List(<<"trainee">>),
     List(<<"junior", "senior">>), List(<<"expert">>), List(<<"expert", "pleno">>)}

\* df.empty: no rows or no columns
Empty(df) == df.rows = <<>> \/ df.columns = {}

\* df[mask]: the DataFrame with the rows the mask keeps, in order
Masked(df, rows) == [df EXCEPT !.rows = rows]

\* Series.fillna("").astype(str) of a text cell
FillNaStr(cell) == IF cell.k = "str" THEN cell.s ELSE ""

(***************************************************************************)
(* filters.py: the filter functions                                        *)
(***************************************************************************)

\* The texts of the columns titulo and descricao, as str.contains sees them
FilterTexts ==
    {FillNaStr(p.titulo) : p \in FilterPostings}
        \cup {FillNaStr(p.descricao) : p \in FilterPostings} \cup {""}

\* The skills not blank, as they were given
UnstrippedSkills(skills) == SelectSeq(skills, LAMBDA s : Strip(s) # "")

\* The skills kept by filter_by_skills: those not blank, stripped
StrippedSkills(skills) ==
    LET nonBlank == SelectSeq(skills, LAMBDA s : Strip(s) # "")
    IN  [i \in 1..Len(nonBlank) |-> Strip(nonBlank[i])]

\* The regex filter_by_skills compiles: the skills escaped, joined by "|"
SkillsRegex(skills) ==
    LET kept == StrippedSkills(skills)
    IN  Alt([i \in 1..Len(kept) |-> Escape(kept[i])])

\* str.contains(regex) of filter_by_skills, for the skills and the texts of
\* the model
SkillsTable ==
    [o \in {q \in SkillOptions : q.k = "list"} |->
        [t \in FilterTexts |-> Search(SkillsRegex(o.v), t)]]

SkillsContains(skills, text) == SkillsTable[List(skills)][text]

\* mask of filter_by_skills: titulo or descricao contains the regex
SkillsMask(df, skills, row) ==
    \/ "titulo" \in df.columns /\ SkillsContains(skills, FillNaStr(row.titulo))
    \/ "descricao" \in df.columns /\ SkillsContains(skills, FillNaStr(row.descricao))

filter_by_skills(df, skills) ==
    IF Empty(df) \/ ~Truthy(skills)
    THEN df
    ELSE IF StrippedSkills(skills.v) = <<>>
         THEN df
         ELSE Masked(df, SelectSeq(df.rows,
                                   LAMBDA row : SkillsMask(df, skills.v, row)))

filter_remote(df) ==
    IF Empty(df)
    THEN df
    ELSE IF "remoto" \notin df.columns
         THEN df
         ELSE Masked(df, SelectSeq(df.rows, LAMBDA row : row.remoto = Bool(TRUE)))

\* drop_duplicates that drops nothing
DropDuplicatesNone(rows, i, seen) == rows

\* drop_duplicates(subset=["link"], keep="first"): a row stays if no row
\* before it has the same link
RECURSIVE DropDuplicates(_, _, _)

DropDuplicates(rows, i, seen) ==
    IF i > Len(rows)
    THEN <<>>
    ELSE IF rows[i].link \in seen
         THEN DropDuplicates(rows, i + 1, seen)
         ELSE <<rows[i]>> \o DropDuplicates(rows, i + 1, seen \cup {rows[i].link})

deduplicate(df) ==
    IF Empty(df)
    THEN df
    ELSE IF "link" \in df.columns
         THEN [df EXCEPT !.rows = DropDuplicates(df.rows, 1, {})]
         ELSE df

Levels == DOMAIN SENIORITY_KEYWORDS

\* SENIORITY_KEYWORDS.get(level, [])
KeywordsOf(level) == IF level \in Levels THEN SENIORITY_KEYWORDS[level] ELSE <<>>

\* patterns of filter_by_seniority: the patterns of the levels, in a row
RECURSIVE SeniorityPatterns(_, _)

SeniorityPatterns(levels, i) ==
    IF i > Len(levels)
    THEN <<>>
    ELSE KeywordsOf(levels[i]) \o SeniorityPatterns(levels, i + 1)

\* The regex filter_by_seniority compiles: the patterns joined by "|"
SeniorityRegex(levels) == Alt(SeniorityPatterns(levels, 1))

\* str.contains(regex) of filter_by_seniority, for the levels and the texts
\* of the model
SeniorityTable ==
    [o \in {q \in SeniorityOptions : q.k = "list"} |->
        [t \in FilterTexts |-> Search(SeniorityRegex(o.v), t)]]

SeniorityContains(levels, text) == SeniorityTable[List(levels)][text]

\* A mask that looks at titulo alone
SeniorityMaskOfTitle(df, levels, row) ==
    "titulo" \in df.columns /\ SeniorityContains(levels, FillNaStr(row.titulo))

\* mask of filter_by_seniority: titulo or descricao contains the regex
SeniorityMask(df, levels, row) ==
    \/ "titulo" \in df.columns /\ SeniorityContains(levels, FillNaStr(row.titulo))
    \/ "descricao" \in df.columns /\ SeniorityContains(levels, FillNaStr(row.descricao))

filter_by_seniority(df, levels) ==
    IF Empty(df) \/ ~Truthy(levels)
    THEN df
    ELSE IF SeniorityPatterns(levels.v, 1) = <<>>
         THEN df
         ELSE Masked(df, SelectSeq(df.rows,
                                   LAMBDA row : SeniorityMask(df, levels.v, row)))

\* df["site"].str.startswith("post_", na=False)
IsPost(row) ==
    /\ row.site.k = "str"
    /\ Len(row.site.s) >= 5
    /\ SubSeq(row.site.s, 1, 5) = "post_"

\* A concat that puts the rows of the first DataFrame in twice
ConcatTwice(a, b) == [a EXCEPT !.rows = a.rows \o b.rows \o a.rows]

\* A concat that puts the second DataFrame first (used to test C30)
ConcatSecondFirst(a, b) == [a EXCEPT !.rows = b.rows \o a.rows]

\* pd.concat([a, b], ignore_index=True, sort=False) of two DataFrames with
\* the same columns
Concat(a, b) == [a EXCEPT !.rows = a.rows \o b.rows]

\* deduplicate over the whole DataFrame, whatever the sites
DeduplicateStageWhole(df) == deduplicate(df)

\* The first statement of apply_all_filters: the rows of job boards and the
\* rows of posts deduplicated apart, then put together
DeduplicateStage(df) ==
    IF "site" \in df.columns
    THEN LET is_post(row) == IsPost(row)
             df_jobs == deduplicate(Masked(df, SelectSeq(df.rows, LAMBDA row : ~is_post(row))))
             df_posts == deduplicate(Masked(df, SelectSeq(df.rows, is_post)))
         IN  Concat(df_jobs, df_posts)
    ELSE deduplicate(df)

RemoteStage(df, remote_only) == IF remote_only THEN filter_remote(df) ELSE df

SkillsStage(df, skills) == IF Truthy(skills) THEN filter_by_skills(df, skills) ELSE df

SeniorityStage(df, seniority) ==
    IF Truthy(seniority) THEN filter_by_seniority(df, seniority) ELSE df

\* The stages in another order: the optional filters first, deduplication
\* last
ApplyAllStagesDeduplicateLast(df, skills, remote_only, seniority) ==
    LET s1 == RemoteStage(df, remote_only)
        s2 == SkillsStage(s1, skills)
        s3 == SeniorityStage(s2, seniority)
        s4 == DeduplicateStage(s3)
    IN  <<s1, s2, s3, s4>>

\* The value of df after each of the four stages of apply_all_filters
ApplyAllStages(df, skills, remote_only, seniority) ==
    LET s1 == DeduplicateStage(df)
        s2 == RemoteStage(s1, remote_only)
        s3 == SkillsStage(s2, skills)
        s4 == SeniorityStage(s3, seniority)
    IN  <<s1, s2, s3, s4>>

apply_all_filters(df, skills, remote_only, seniority) ==
    ApplyAllStages(df, skills, remote_only, seniority)[4]

(***************************************************************************)
(* filters.py as a state machine: a DataFrame is drawn, and one of the     *)
(* filter functions is called on it with any of the arguments of the       *)
(* model.  The functions keep no state between calls, so a behaviour shows *)
(* one call.                                                               *)
(***************************************************************************)

NoFrame == [columns |-> {}, rows |-> <<>>]

\* A call of a filter function: its arguments, the DataFrame it returns and,
\* for apply_all_filters, the value of df after each stage
NoFilterCall ==
    [fn |-> "none", df |-> NoFrame, skills |-> NoList, remote_only |-> FALSE,
     seniority |-> NoList, out |-> NoFrame, stages |-> <<>>]

FilterCall(fn, skills, remote_only, seniority, out, stages) ==
    [fn |-> fn, df |-> fin, skills |-> skills, remote_only |-> remote_only,
     seniority |-> seniority, out |-> out, stages |-> stages]

FilterInit ==
    /\ DbInit
    /\ fin \in Frames
    /\ fcall = NoFilterCall
    /\ OtherIdle

CallDeduplicate ==
    /\ fcall = NoFilterCall
    /\ fcall' = FilterCall("deduplicate", NoList, FALSE, NoList, deduplicate(fin), <<>>)
    /\ UNCHANGED <<fin, dbVars, otherVars>>

CallFilterRemote ==
    /\ fcall = NoFilterCall
    /\ fcall' = FilterCall("filter_remote", NoList, FALSE, NoList, filter_remote(fin), <<>>)
    /\ UNCHANGED <<fin, dbVars, otherVars>>

CallFilterBySkills ==
    /\ fcall = NoFilterCall
    /\ \E skills \in SkillOptions :
          fcall' = FilterCall("filter_by_skills", skills, FALSE, NoList,
                              filter_by_skills(fin, skills), <<>>)
    /\ UNCHANGED <<fin, dbVars, otherVars>>

CallFilterBySeniority ==
    /\ fcall = NoFilterCall
    /\ \E levels \in SeniorityOptions :
          fcall' = FilterCall("filter_by_seniority", NoList, FALSE, levels,
                              filter_by_seniority(fin, levels), <<>>)
    /\ UNCHANGED <<fin, dbVars, otherVars>>

CallApplyAllFilters ==
    /\ fcall = NoFilterCall
    /\ \E skills \in SkillOptions, remote_only \in BOOLEAN, seniority \in SeniorityOptions :
          LET stages == ApplyAllStages(fin, skills, remote_only, seniority)
          IN  fcall' = FilterCall("apply_all_filters", skills, remote_only, seniority,
                                  stages[4], stages)
    /\ UNCHANGED <<fin, dbVars, otherVars>>

FilterNext ==
    \/ CallDeduplicate
    \/ CallFilterRemote
    \/ CallFilterBySkills
    \/ CallFilterBySeniority
    \/ CallApplyAllFilters

FilterSpec == FilterInit /\ [][FilterNext]_vars

(***************************************************************************)
(* Claims about filters.py, checked under FilterSpec                       *)
(***************************************************************************)

IsApplyAll == fcall.fn = "apply_all_filters"

\* apply_all_filters was called with no optional filter active
NoOptionalFilter ==
    /\ IsApplyAll
    /\ ~fcall.remote_only
    /\ ~Truthy(fcall.skills)
    /\ ~Truthy(fcall.seniority)

RowIds(df) == {df.rows[i].rid : i \in 1..Len(df.rows)}
RowSet(df) == {df.rows[i] : i \in 1..Len(df.rows)}

\* Both rows come from post sources or neither does; a DataFrame without
\* the column site is one partition
SamePartition(df, r, q) == "site" \in df.columns => (IsPost(r) <=> IsPost(q))

\* Row i of df is the first of the DataFrame with its link
FirstOfLink(df, i) ==
    \A j \in 1..(i - 1) : df.rows[j].link # df.rows[i].link

\* Row i of df is the first of its partition with its link
FirstOfLinkInPartition(df, i) ==
    \A j \in 1..(i - 1) :
        ~(SamePartition(df, df.rows[j], df.rows[i]) /\ df.rows[j].link = df.rows[i].link)

\* C5 as stated: with no optional filter active, apply_all_filters keeps of
\* the postings with the same source_url exactly the first of the input,
\* whatever their sites
C5_OneRowPerLink ==
    (NoOptionalFilter /\ "link" \in fcall.df.columns) =>
        \A i \in 1..Len(fcall.df.rows) :
            fcall.df.rows[i].rid \in RowIds(fcall.out) <=> FirstOfLink(fcall.df, i)

\* C5, amended: with no optional filter active, apply_all_filters keeps of
\* the postings with the same source_url that are in the same partition
\* (all from post sources, or none) exactly the first of the input,
\* whatever their other fields
C5_OneRowPerLinkInPartition ==
    (NoOptionalFilter /\ "link" \in fcall.df.columns) =>
        /\ \A i \in 1..Len(fcall.df.rows) :
              fcall.df.rows[i].rid \in RowIds(fcall.out)
                  <=> FirstOfLinkInPartition(fcall.df, i)
        /\ Len(fcall.out.rows) = Cardinality(RowIds(fcall.out))

\* Two postings of a partition have the same link and differ in another
\* field, a third with that link is in the other partition; the second is
\* dropped and the third is kept
C5_Witness ==
    /\ NoOptionalFilter
    /\ \E i, j, k \in 1..Len(fcall.df.rows) :
          /\ i < j
          /\ fcall.df.rows[i].link = fcall.df.rows[j].link
          /\ fcall.df.rows[i].link = fcall.df.rows[k].link
          /\ fcall.df.rows[i].link.k = "str"
          /\ fcall.df.rows[i].titulo # fcall.df.rows[j].titulo
          /\ "site" \in fcall.df.columns
          /\ IsPost(fcall.df.rows[i]) = IsPost(fcall.df.rows[j])
          /\ IsPost(fcall.df.rows[i]) # IsPost(fcall.df.rows[k])
          /\ fcall.df.rows[i].rid \in RowIds(fcall.out)
          /\ fcall.df.rows[j].rid \notin RowIds(fcall.out)
          /\ fcall.df.rows[k].rid \in RowIds(fcall.out)

\* C6: apply_all_filters deduplicates the rows of post sources apart from
\* the other rows: after its first stage each partition holds at most one
\* row per source_url, the first of the input, and every row that is the
\* first of its partition with its source_url is still there, whatever the
\* other partition holds
C6_PartitionedDeduplication ==
    (IsApplyAll /\ {"site", "link"} \subseteq fcall.df.columns) =>
        LET in == fcall.df
            s1 == fcall.stages[1]
        IN  /\ \A a, b \in 1..Len(s1.rows) :
                  (a # b /\ IsPost(s1.rows[a]) = IsPost(s1.rows[b]))
                      => s1.rows[a].link # s1.rows[b].link
            /\ \A a \in 1..Len(s1.rows) :
                  \E i \in 1..Len(in.rows) :
                      in.rows[i] = s1.rows[a] /\ FirstOfLinkInPartition(in, i)
            /\ \A i \in 1..Len(in.rows) :
                  (\A j \in 1..(i - 1) :
                      IsPost(in.rows[j]) = IsPost(in.rows[i])
                          => in.rows[j].link # in.rows[i].link)
                      => in.rows[i] \in RowSet(s1)

\* A post row comes after a row of a job board with the same link and stays;
\* another row of a job board with that link is dropped
C6_Witness ==
    /\ IsApplyAll
    /\ {"site", "link"} \subseteq fcall.df.columns
    /\ \E i, j, k \in 1..Len(fcall.df.rows) :
          /\ i < j /\ i < k
          /\ ~IsPost(fcall.df.rows[i])
          /\ ~IsPost(fcall.df.rows[j])
          /\ IsPost(fcall.df.rows[k])
          /\ fcall.df.rows[i].link = fcall.df.rows[j].link
          /\ fcall.df.rows[i].link = fcall.df.rows[k].link
          /\ fcall.df.rows[k] \in RowSet(fcall.stages[1])
          /\ fcall.df.rows[j] \notin RowSet(fcall.stages[1])
          /\ fcall.df.rows[i] \in RowSet(fcall.stages[1])

\* The predicates of the optional stages of the last call, on a row of the
\* DataFrame it was given; the predicate of an inactive stage holds
RemoteOk(row) ==
    (fcall.remote_only /\ "remoto" \in fcall.df.columns) => row.remoto = Bool(TRUE)

SkillsOk(row) ==
    (Truthy(fcall.skills) /\ StrippedSkills(fcall.skills.v) # <<>>)
        => SkillsMask(fcall.df, fcall.skills.v, row)

SeniorityOk(row) ==
    (Truthy(fcall.seniority) /\ SeniorityPatterns(fcall.seniority.v, 1) # <<>>)
        => SeniorityMask(fcall.df, fcall.seniority.v, row)

\* Row i of the DataFrame is what deduplication keeps
FirstCopy(df, i) == "link" \in df.columns => FirstOfLinkInPartition(df, i)

\* C7: apply_all_filters deduplicates first and then applies the remote,
\* skills and seniority filters; a stage whose option is inactive returns
\* what it is given; the output holds exactly the rows that are the first
\* copy of their source_url in their partition and satisfy every active
\* predicate, so a source_url whose first copy fails one is absent even if
\* a later copy satisfies them all
C7_StagesInOrder ==
    IsApplyAll =>
        LET in == fcall.df
        IN  /\ ~fcall.remote_only => fcall.stages[2] = fcall.stages[1]
            /\ ~Truthy(fcall.skills) => fcall.stages[3] = fcall.stages[2]
            /\ ~Truthy(fcall.seniority) => fcall.stages[4] = fcall.stages[3]
            /\ fcall.out = fcall.stages[4]
            /\ \A i \in 1..Len(in.rows) :
                  in.rows[i] \in RowSet(fcall.out)
                      <=> /\ FirstCopy(in, i)
                          /\ RemoteOk(in.rows[i])
                          /\ SkillsOk(in.rows[i])
                          /\ SeniorityOk(in.rows[i])

\* All three optional filters are active; the first copy of a link fails one
\* of them, a later copy in its partition satisfies them all, and no row
\* with that link in that partition is in the output
C7_Witness ==
    /\ IsApplyAll
    /\ fcall.remote_only
    /\ Truthy(fcall.skills) /\ StrippedSkills(fcall.skills.v) # <<>>
    /\ Truthy(fcall.seniority) /\ SeniorityPatterns(fcall.seniority.v, 1) # <<>>
    /\ {"link", "site", "remoto", "titulo"} \subseteq fcall.df.columns
    /\ \E i, j \in 1..Len(fcall.df.rows) :
          /\ i < j
          /\ FirstOfLinkInPartition(fcall.df, i)
          /\ fcall.df.rows[i].link = fcall.df.rows[j].link
          /\ IsPost(fcall.df.rows[i]) = IsPost(fcall.df.rows[j])
          /\ ~RemoteOk(fcall.df.rows[i])
          /\ RemoteOk(fcall.df.rows[j])
          /\ SkillsOk(fcall.df.rows[j])
          /\ SeniorityOk(fcall.df.rows[j])
          /\ \A a \in 1..Len(fcall.out.rows) :
                ~(/\ fcall.out.rows[a].link = fcall.df.rows[i].link
                  /\ IsPost(fcall.out.rows[a]) = IsPost(fcall.df.rows[i]))
    /\ fcall.out.rows # <<>>

\* The rows of out are rows of in with every field as it was, none twice,
\* and the columns are those of in
Narrows(in, out) ==
    /\ out.columns = in.columns
    /\ RowSet(out) \subseteq RowSet(in)
    /\ Len(out.rows) <= Len(in.rows)
    /\ Cardinality(RowIds(out)) = Len(out.rows)

\* C8: each filter function, and apply_all_filters stage by stage and as a
\* whole, returns rows of its input with every field unchanged and at most
\* as many as it was given; a row that a stage of apply_all_filters removed
\* is in no later stage and not in the output
C8_FiltersNarrow ==
    fcall.fn # "none" =>
        /\ Narrows(fcall.df, fcall.out)
        /\ IsApplyAll =>
              /\ Narrows(fcall.df, fcall.stages[1])
              /\ \A k \in 1..3 : Narrows(fcall.stages[k], fcall.stages[k + 1])
              /\ \A k \in 1..4 :
                    (RowSet(fcall.df) \ RowSet(fcall.stages[k])) \cap RowSet(fcall.out) = {}

\* Deduplication, the remote filter and a later stage each remove a row, of
\* the two partitions
C8_Witness ==
    /\ IsApplyAll
    /\ "site" \in fcall.df.columns
    /\ \E i, j \in 1..Len(fcall.df.rows) : IsPost(fcall.df.rows[i]) /\ ~IsPost(fcall.df.rows[j])
    /\ Len(fcall.stages[1].rows) < Len(fcall.df.rows)
    /\ Len(fcall.stages[2].rows) < Len(fcall.stages[1].rows)
    /\ Len(fcall.out.rows) < Len(fcall.stages[2].rows)

\* kw is in text as it is written, upper and lower case taken as equal
Occurs(kw, text) ==
    \E i \in 0..(Len(text) - Len(kw)) :
        \A j \in 1..Len(kw) : Lower(CharAt(text, i + j)) = Lower(CharAt(kw, j))

\* kw is in the title or the description of the row
OccursInRow(df, kw, row) ==
    \/ "titulo" \in df.columns /\ Occurs(kw, FillNaStr(row.titulo))
    \/ "descricao" \in df.columns /\ Occurs(kw, FillNaStr(row.descricao))

IsSkillsCall == fcall.fn = "filter_by_skills"

\* The last call gave no list of skills, or one whose skills are all blank
NoSkillGiven ==
    fcall.skills.k = "none" \/ \A k \in 1..Len(fcall.skills.v) : Strip(fcall.skills.v[k]) = ""

\* C9 as stated: filter_by_skills keeps exactly the rows in which a skill
\* that is not blank occurs, as it was given, in title or description,
\* whatever the case of the letters, and every row if no skill is given or
\* all are blank
C9_KeywordOccurs ==
    IsSkillsCall =>
        IF NoSkillGiven
        THEN fcall.out = fcall.df
        ELSE fcall.out.rows =
                SelectSeq(fcall.df.rows,
                          LAMBDA row :
                              \E k \in 1..Len(fcall.skills.v) :
                                  /\ Strip(fcall.skills.v[k]) # ""
                                  /\ OccursInRow(fcall.df, fcall.skills.v[k], row))

\* C9, amended: filter_by_skills keeps exactly the rows in which a skill
\* that is not blank occurs, trimmed of the whitespace around it, in title
\* or description, whatever the case of the letters, and every row if no
\* skill is given or all are blank
C9_TrimmedKeywordOccurs ==
    IsSkillsCall =>
        /\ fcall.out.columns = fcall.df.columns
        /\ IF NoSkillGiven
           THEN fcall.out = fcall.df
           ELSE fcall.out.rows =
                   SelectSeq(fcall.df.rows,
                             LAMBDA row :
                                 \E k \in 1..Len(fcall.skills.v) :
                                     /\ Strip(fcall.skills.v[k]) # ""
                                     /\ OccursInRow(fcall.df, Strip(fcall.skills.v[k]), row))

\* The skill " rest ": a row whose description holds "REST", in upper case
\* and with no space after it, is kept and another row is removed
C9_Witness ==
    /\ IsSkillsCall
    /\ fcall.skills = List(<<" rest ">>)
    /\ \E a \in 1..Len(fcall.out.rows) :
          /\ fcall.out.rows[a].descricao = Str("Django REST")
          /\ ~OccursInRow(fcall.df, " rest ", fcall.out.rows[a])
    /\ Len(fcall.out.rows) < Len(fcall.df.rows)

\* Some pattern of the level is found in the text, for the levels of the
\* vocabulary and the texts of the model
LevelTable ==
    [level \in Levels |->
        [t \in FilterTexts |->
            \E k \in 1..Len(SENIORITY_KEYWORDS[level]) :
                Search(SENIORITY_KEYWORDS[level][k], t)]]

\* The title or the description of the row matches a pattern of the level
LevelInRow(df, level, row) ==
    \/ "titulo" \in df.columns /\ LevelTable[level][FillNaStr(row.titulo)]
    \/ "descricao" \in df.columns /\ LevelTable[level][FillNaStr(row.descricao)]

IsSeniorityCall == fcall.fn = "filter_by_seniority"

\* The levels of the vocabulary among those of the last call
RequestedLevels ==
    {fcall.seniority.v[k] : k \in 1..Len(fcall.seniority.v)} \cap Levels

\* C10: given a list with a level of the vocabulary (trainee, junior,
\* pleno, senior), filter_by_seniority keeps exactly the rows whose title
\* or description matches a pattern of a requested level, in the order of
\* the input, and removes the rows that match none
C10_SeniorityMatch ==
    (IsSeniorityCall /\ RequestedLevels # {}) =>
        /\ fcall.out.columns = fcall.df.columns
        /\ fcall.out.rows =
              SelectSeq(fcall.df.rows,
                        LAMBDA row :
                            \E level \in RequestedLevels :
                                LevelInRow(fcall.df, level, row))

\* Level pleno, given with a level that is not of the vocabulary: a row is
\* kept for its description alone, and a row that matches a pattern of
\* level senior and none of level pleno is removed
C10_Witness ==
    /\ IsSeniorityCall
    /\ fcall.seniority = List(<<"expert", "pleno">>)
    /\ \E i, j \in 1..Len(fcall.df.rows) :
          /\ ~LevelTable["pleno"][FillNaStr(fcall.df.rows[i].titulo)]
          /\ LevelTable["pleno"][FillNaStr(fcall.df.rows[i].descricao)]
          /\ fcall.df.rows[i] \in RowSet(fcall.out)
          /\ LevelInRow(fcall.df, "senior", fcall.df.rows[j])
          /\ ~LevelInRow(fcall.df, "pleno", fcall.df.rows[j])
          /\ fcall.df.rows[j] \notin RowSet(fcall.out)

(***************************************************************************)
(* gui.py: a search run of the window (_start_search, _run_search and the  *)
(* run_task calls on the worker threads), and main.py: a search of the     *)
(* command line (cmd_search)                                               *)
(*                                                                         *)
(* A DataFrame of postings is here the sequence of its rows; a row of a    *)
(* task's result is [task, n], the n-th posting the task brought.          *)
(***************************************************************************)

\* The checkboxes of the window, in the order they are made
SiteKeys == <<"linkedin", "indeed", "glassdoor">>
PostKeys == <<"linkedin_posts", "twitter", "instagram", "facebook">>
ExtraKeys == <<"gupy", "remoteok", "vagascom", "geekHunter", "trampos", "reddit", "workana">>
SeniorityKeys == <<"trainee", "junior", "pleno", "senior">>

Range(seq) == {seq[i] : i \in 1..Len(seq)}

\* [k for k, v in vars.items() if v.get()]: the checked keys, in order
Checked(keys, checked) == SelectSeq(keys, LAMBDA k : k \in checked)

\* x or None, for a list x
OrNone(list) == IF list = <<>> THEN NoList ELSE List(list)

\* x or [], for a list or None
OrEmpty(opt) == IF Truthy(opt) THEN opt.v ELSE <<>>

\* What the window holds when the button is pressed
Form(search_entry, extra_terms_list, sites, extras, posts, seniority) ==
    [search_entry |-> search_entry, extra_terms_list |-> extra_terms_list,
     site_vars |-> sites, extra_vars |-> extras, post_vars |-> posts,
     seniority_vars |-> seniority]

\* The windows of the model: no term, a blank term, no source, and runs of
\* one, two and three tasks, of one and of several terms, of the three
\* kinds of source; _add_extra_term keeps the extra terms distinct from each
\* other, not from the term of the entry
Forms ==
    {Form("", <<>>, {"linkedin"}, {}, {}, {}),
     Form("  ", <<"java">>, {}, {"gupy"}, {}, {"junior"}),
     Form("python", <<>>, {}, {}, {}, {}),
     Form(" python ", <<>>, {"indeed"}, {}, {}, {"senior"}),
     Form("python", <<"java">>, {}, {"gupy"}, {}, {}),
     Form("python", <<>>, {"linkedin"}, {"gupy"}, {"twitter"}, {"trainee", "pleno"}),
     Form("python", <<"python">>, {}, {"remoteok"}, {}, {}),
     Form("dev", <<>>, {"linkedin", "glassdoor"}, {}, {}, {})}

\* params of _start_search
ParamsOf(form) ==
    [search_terms |-> <<Strip(form.search_entry)>> \o form.extra_terms_list,
     sites |-> Checked(SiteKeys, form.site_vars),
     extra_sources |-> OrNone(Checked(ExtraKeys, form.extra_vars)),
     post_platforms |-> OrNone(Checked(PostKeys, form.post_vars)),
     seniority |-> OrNone(Checked(SeniorityKeys, form.seniority_vars))]

\* What a press did, and the search it asked for
Press(result, terms, sources, seniority) ==
    [result |-> result, terms |-> terms, sources |-> sources, seniority |-> seniority]

PressOf(result, form) ==
    Press(result, <<form.search_entry>> \o form.extra_terms_list,
          form.site_vars \cup form.extra_vars \cup form.post_vars, form.seniority_vars)

\* A task of _run_search
Task(kind, term, source) ==
    [label |-> source \o " [" \o term \o "]", kind |-> kind, term |-> term,
     source |-> source]

\* The tasks of one term
TasksOfTerm(p, term) ==
    [i \in 1..Len(p.sites) |-> Task("jobspy", term, p.sites[i])]
        \o [i \in 1..Len(OrEmpty(p.extra_sources)) |->
                Task("extra", term, OrEmpty(p.extra_sources)[i])]
        \o [i \in 1..Len(OrEmpty(p.post_platforms)) |->
                Task("posts", term, OrEmpty(p.post_platforms)[i])]

\* The list tasks: the tasks of each term, term after term
RECURSIVE BuildTaskList(_, _)

BuildTaskList(p, t) ==
    IF t > Len(p.search_terms)
    THEN <<>>
    ELSE TasksOfTerm(p, p.search_terms[t]) \o BuildTaskList(p, t + 1)

\* The most threads a ThreadPoolExecutor of _run_search has
PoolCap == 8

Min(a, b) == IF a <= b THEN a ELSE b

\* max_workers
\* A pool with a thread for every task
MaxWorkersUnbounded(total) == IF total # 0 THEN total ELSE 1

MaxWorkers(total) == IF total # 0 THEN Min(PoolCap, total) ELSE 1

\* run_task before it is taken by a thread
Pending == [pc |-> "pending", result |-> <<>>, raised |-> FALSE, reg |-> 0, c |-> 0]

\* The tasks a thread of the pool is running
Running(ts) == {i \in 1..Len(ts) : ts[i].pc \notin {"pending", "done"}}

\* What an adapter may return for task i: no posting, one or two
TaskFrames(i) ==
    {<<>>, <<[task |-> i, n |-> 1]>>, <<[task |-> i, n |-> 1], [task |-> i, n |-> 2]>>}

\* The call of an adapter
Call(kind, term, sources) == [kind |-> kind, term |-> term, sources |-> sources]

\* The variables of a run that the press of the button leaves alone
runLocals == <<tasks, threads, completed_count, lock, events, finished, merged, calls>>

\* A guard that lets every press through (used to test C29)
NeverBusy(running) == FALSE

\* if self.is_running: return
Busy(running) == running

\* The search button was pressed once more
Pressed(o) == [o EXCEPT !.presses = 1 - @]

\* _start_search: the button is pressed.  A press while a run is in
\* progress returns at once and changes nothing.
StartSearch ==
    /\ frontend = "gui"
    /\ IF Busy(is_running)
       THEN /\ io' = Pressed(io)
            /\ UNCHANGED <<press, is_running, params, phase, outcome, runLocals>>
       ELSE \E form \in Forms :
          LET p == ParamsOf(form)
          IN  IF Strip(form.search_entry) = ""
              THEN /\ press' = PressOf("no_term", form)
                   /\ io' = Pressed(io)
                   /\ UNCHANGED <<is_running, params, phase, outcome, runLocals>>
              ELSE IF p.sites = <<>> /\ ~Truthy(p.extra_sources) /\ ~Truthy(p.post_platforms)
              THEN /\ press' = PressOf("no_source", form)
                   /\ io' = Pressed(io)
                   /\ UNCHANGED <<is_running, params, phase, outcome, runLocals>>
              ELSE /\ press' = PressOf("started", form)
                   /\ params' = p
                   /\ is_running' = TRUE
                   /\ phase' = "started"
                   /\ outcome' = "none"
                   /\ tasks' = <<>>
                   /\ threads' = <<>>
                   /\ completed_count' = 0
                   /\ lock' = 0
                   /\ events' = <<>>
                   /\ finished' = <<>>
                   /\ merged' = <<>>
                   /\ calls' = <<>>
                   /\ io' = [Pressed(NoIo) EXCEPT !.presses = Pressed(io).presses,
                                                  !.runs = io.runs + 1]
    /\ UNCHANGED <<frontend, dbVars, filterVars, acall, rcall>>

\* _run_search, to the making of the pool: sys.stdout is set to the queue
\* of the log and the list of tasks is built
BuildTasks ==
    /\ phase = "started"
    /\ tasks' = BuildTaskList(params, 1)
    /\ threads' = [i \in 1..Len(tasks') |-> Pending]
    /\ completed_count' = 0
    /\ lock' = 0
    /\ phase' = "pool"
    /\ io' = [io EXCEPT !.old_stdout = io.stdout, !.stdout = "queue"]
    /\ UNCHANGED <<frontend, is_running, press, params, events, finished, merged,
                   outcome, calls, dbVars, filterVars, acall, rcall>>

\* A thread of the pool takes the next task of the list and calls its
\* adapter; the pool has at most max_workers threads
StartTask ==
    /\ phase = "pool"
    /\ Cardinality(Running(threads)) < MaxWorkers(Len(tasks))
    /\ \E i \in 1..Len(tasks) :
          /\ threads[i].pc = "pending"
          /\ \A j \in 1..(i - 1) : threads[j].pc # "pending"
          /\ threads' = [threads EXCEPT ![i].pc = "fetching"]
          /\ calls' = Append(calls, Call(tasks[i].kind, tasks[i].term, <<tasks[i].source>>))
    /\ UNCHANGED <<frontend, is_running, press, params, tasks, completed_count, lock,
                   events, finished, phase, merged, outcome, dbVars, filterVars, acall, rcall, io>>

\* The adapter of a task returns a DataFrame
FetchReturns ==
    /\ \E i \in 1..Len(tasks) :
          /\ threads[i].pc = "fetching"
          /\ \E df \in TaskFrames(i) :
                threads' = [threads EXCEPT ![i].pc = "fetched", ![i].result = df]
    /\ UNCHANGED <<frontend, is_running, press, params, tasks, completed_count, lock,
                   events, finished, phase, merged, outcome, calls, dbVars, filterVars, acall, rcall, io>>

\* run_task without its try block: the exception of the adapter leaves
\* run_task and the pool, and the run ends in the except of _run_search
FetchRaisesUncaught ==
    /\ \E i \in 1..Len(tasks) :
          /\ threads[i].pc = "fetching"
          /\ threads' = [threads EXCEPT ![i].pc = "done", ![i].raised = TRUE]
    /\ outcome' = "error"
    /\ phase' = "finally"
    /\ UNCHANGED <<frontend, is_running, press, params, tasks, completed_count, lock,
                   events, finished, merged, calls, dbVars, filterVars, acall, rcall, io>>

\* The adapter of a task raises; run_task catches it, logs it and goes on
\* with the empty DataFrame
FetchRaises ==
    /\ \E i \in 1..Len(tasks) :
          /\ threads[i].pc = "fetching"
          /\ threads' = [threads EXCEPT ![i].pc = "fetched", ![i].raised = TRUE]
    /\ UNCHANGED <<frontend, is_running, press, params, tasks, completed_count, lock,
                   events, finished, phase, merged, outcome, calls, dbVars, filterVars, acall, rcall, io>>

\* A bare shared counter: no task waits for another
LockAlwaysFree(holder) == TRUE

\* A lock that nobody holds can be taken
LockFree(holder) == holder = 0

\* with lock: the task takes the lock and reads completed_count
AcquireLock ==
    /\ \E i \in 1..Len(tasks) :
          /\ threads[i].pc = "fetched"
          /\ LockFree(lock)
          /\ lock' = i
          /\ threads' = [threads EXCEPT ![i].pc = "locked", ![i].reg = completed_count]
    /\ UNCHANGED <<frontend, is_running, press, params, tasks, completed_count,
                   events, finished, phase, merged, outcome, calls, dbVars, filterVars, acall, rcall, io>>

\* completed_count += 1; c = completed_count; the lock is released
StoreCount ==
    /\ \E i \in 1..Len(tasks) :
          /\ threads[i].pc = "locked"
          /\ completed_count' = threads[i].reg + 1
          /\ threads' = [threads EXCEPT ![i].pc = "counted", ![i].c = threads[i].reg + 1]
          /\ lock' = 0
    /\ UNCHANGED <<frontend, is_running, press, params, tasks,
                   events, finished, phase, merged, outcome, calls, dbVars, filterVars, acall, rcall, io>>

\* self.after(0, ... _update_progress(c, total)); return result
EmitProgress ==
    /\ \E i \in 1..Len(tasks) :
          /\ threads[i].pc = "counted"
          /\ events' = Append(events, <<threads[i].c, Len(tasks)>>)
          /\ finished' = Append(finished, i)
          /\ threads' = [threads EXCEPT ![i].pc = "done", ![i].reg = 0, ![i].c = 0]
    /\ UNCHANGED <<frontend, is_running, press, params, tasks, completed_count, lock,
                   phase, merged, outcome, calls, dbVars, filterVars, acall, rcall, io>>

\* A pool that is left without waiting for its tasks
PoolNotAwaited(ts) == TRUE

\* list(executor.map(run_task, tasks)) and the end of the with block have
\* returned: every run_task has returned
PoolDrained(ts) == \A i \in 1..Len(ts) : ts[i].pc = "done"

\* pd.concat(frames): the rows of the frames, frame after frame
RECURSIVE ConcatFrames(_, _)

ConcatFrames(frames, i) ==
    IF i > Len(frames) THEN <<>> ELSE frames[i] \o ConcatFrames(frames, i + 1)

\* The results of the tasks in the order in which the tasks returned
MapResultsAsCompleted(ts) == [k \in 1..Len(finished) |-> ts[finished[k]].result]

\* results of executor.map: the results of the tasks, in the order of the
\* list tasks
MapResults(ts) == [i \in 1..Len(ts) |-> ts[i].result]

\* df of _run_search: the results that are not empty, concatenated
MergeResults(results) ==
    ConcatFrames(SelectSeq(results, LAMBDA df : df # <<>>), 1)

\* A test of df.empty that never holds (used to test C28)
NeverEmpty(df) == FALSE

\* df.empty
IsEmpty(df) == df = <<>>

\* Whether a DataFrame has rows, as recorded in io
Emptiness(df) == IF df = <<>> THEN "empty" ELSE "rows"

\* The pool is left and the results are merged; an empty df ends the run
Merge ==
    /\ phase = "pool"
    /\ PoolDrained(threads)
    /\ merged' = MergeResults(MapResults(threads))
    /\ io' = [io EXCEPT !.merge = Emptiness(merged')]
    /\ IF IsEmpty(merged')
       THEN outcome' = "no_results" /\ phase' = "finally"
       ELSE outcome' = outcome /\ phase' = "enrich"
    /\ UNCHANGED <<frontend, is_running, press, params, tasks, threads, completed_count,
                   lock, events, finished, calls, dbVars, filterVars, acall, rcall>>

\* enrich_recruiter_info(df) is called
Enrich ==
    /\ phase = "enrich"
    /\ phase' = "filter"
    /\ UNCHANGED <<frontend, is_running, press, params, tasks, threads, completed_count,
                   lock, events, finished, merged, outcome, calls, dbVars, filterVars, acall, rcall, io>>

\* What apply_all_filters may leave of df: the filters only drop rows
Filtered(df) == {<<>>, df, SubSeq(df, 1, Min(1, Len(df)))}

\* apply_all_filters(df, ...) is called; an empty result ends the run
ApplyFilters ==
    /\ phase = "filter"
    /\ \E kept \in Filtered(merged) :
          /\ io' = [io EXCEPT !.filters = Emptiness(kept), !.df = kept]
          /\ IF IsEmpty(kept)
             THEN outcome' = "no_rows_after_filters" /\ phase' = "finally"
             ELSE outcome' = outcome /\ phase' = "save"
    /\ UNCHANGED <<frontend, is_running, press, params, tasks, threads, completed_count,
                   lock, events, finished, merged, calls, dbVars, filterVars, acall, rcall>>

\* save_jobs(df, search_term=combined_term) is called; it returns the
\* count of new rows, or raises and the run goes to except
SaveHistory ==
    /\ phase = "save"
    /\ \E raised \in BOOLEAN :
          /\ io' = [io EXCEPT !.save_jobs = Append(@, [rows |-> Len(io.df), raised |-> raised])]
          /\ IF raised
             THEN outcome' = "error" /\ phase' = "finally"
             ELSE outcome' = outcome /\ phase' = "export"
    /\ UNCHANGED <<frontend, is_running, press, params, tasks, threads, completed_count,
                   lock, events, finished, merged, calls, dbVars, filterVars, acall, rcall>>

\* df.to_excel(out_path) or df.to_csv(out_path) writes the file and the run
\* is done, or raises and the run goes to except
ExportFile ==
    /\ phase = "export"
    /\ \E raised \in BOOLEAN :
          IF raised
          THEN io' = io /\ outcome' = "error"
          ELSE /\ io' = [io EXCEPT !.files = Append(@, [rows |-> Len(io.df)])]
               /\ outcome' = "done"
    /\ phase' = "finally"
    /\ UNCHANGED <<frontend, is_running, press, params, tasks, threads, completed_count,
                   lock, events, finished, merged, calls, dbVars, filterVars, acall, rcall>>

\* finally: sys.stdout and is_running are put back
Finally ==
    /\ phase = "finally"
    /\ io' = [io EXCEPT !.stdout = io.old_stdout, !.runs = @ - 1]
    /\ is_running' = FALSE
    /\ phase' = "idle"
    /\ UNCHANGED <<frontend, press, params, tasks, threads, completed_count,
                   lock, events, finished, merged, outcome, calls, dbVars, filterVars, acall, rcall>>

\* The sites argparse lets through
SiteChoices == {"linkedin", "indeed", "glassdoor", "zip_recruiter"}

\* The command lines of the model: -s with a term or with the empty
\* string, and --sites absent, with a choice, or with a word that is none
CommandLines ==
    {[search |-> search, sites |-> sites] :
        search \in {"", "python"},
        sites \in {NoList, List(<<"indeed">>), List(<<"zip_recruiter", "linkedin">>),
                   List(<<"monster">>)}}

\* sites = args.sites or ["linkedin", "indeed", "glassdoor"]
OrDefaultSites(opt) == IF Truthy(opt) THEN opt.v ELSE <<"linkedin", "indeed", "glassdoor">>

\* main: parse_args lets the command line through to cmd_search, or ends
\* the program for a site that is no choice
ParseArgs ==
    /\ frontend = "cli"
    /\ phase = "idle"
    /\ press.result = "none"
    /\ \E argv \in CommandLines :
          IF Range(argv.sites.v) \subseteq SiteChoices
          THEN /\ press' = Press("started", <<argv.search>>,
                                 Range(OrDefaultSites(argv.sites)), {})
               /\ params' = [search_terms |-> <<argv.search>>,
                             sites |-> OrDefaultSites(argv.sites),
                             extra_sources |-> NoList, post_platforms |-> NoList,
                             seniority |-> NoList]
               /\ phase' = "cmd_search"
               /\ outcome' = outcome
          ELSE /\ press' = Press("usage", <<argv.search>>, Range(argv.sites.v), {})
               /\ outcome' = "usage"
               /\ phase' = "exit"
               /\ params' = params
    /\ UNCHANGED <<frontend, is_running, runLocals, dbVars, filterVars, acall, rcall, io>>

\* cmd_search: search_jobs is called with the term and the sites; the
\* command ends with an exception of search_jobs, with no posting found,
\* with none after the filters, or with the file written by _save_output
CmdSearch ==
    /\ phase = "cmd_search"
    /\ calls' = <<Call("jobspy", params.search_terms[1], params.sites)>>
    /\ \E raised \in BOOLEAN, found \in TaskFrames(1) :
          IF raised
          THEN io' = io /\ outcome' = "error"
          ELSE IF IsEmpty(found)
          THEN io' = [io EXCEPT !.merge = Emptiness(found)] /\ outcome' = "no_results"
          ELSE \E kept \in Filtered(found) :
                  IF IsEmpty(kept)
                  THEN /\ io' = [io EXCEPT !.merge = Emptiness(found),
                                           !.filters = Emptiness(kept)]
                       /\ outcome' = "no_rows_after_filters"
                  ELSE /\ io' = [io EXCEPT !.merge = Emptiness(found),
                                           !.filters = Emptiness(kept), !.df = kept,
                                           !.files = Append(@, [rows |-> Len(kept)])]
                       /\ outcome' = "done"
    /\ phase' = "exit"
    /\ UNCHANGED <<frontend, is_running, press, params, tasks, threads, completed_count,
                   lock, events, finished, merged, dbVars, filterVars, acall, rcall>>

RunInit ==
    /\ DbInit
    /\ fin = <<>>
    /\ fcall = <<>>
    /\ frontend \in {"gui", "cli"}
    /\ NoRun
    /\ acall = <<>>
    /\ rcall = <<>>

RunNext ==
    \/ StartSearch
    \/ BuildTasks
    \/ StartTask
    \/ FetchReturns
    \/ FetchRaises
    \/ AcquireLock
    \/ StoreCount
    \/ EmitProgress
    \/ Merge
    \/ Enrich
    \/ ApplyFilters
    \/ SaveHistory
    \/ ExportFile
    \/ Finally
    \/ ParseArgs
    \/ CmdSearch

RunSpec == RunInit /\ [][RunNext]_vars

\* ---------------------------------------------------------------------
\* Claims on the start of a run
\* ---------------------------------------------------------------------

\* The keys of the sources the program knows
SourceKeys == Range(SiteKeys) \cup Range(ExtraKeys) \cup Range(PostKeys) \cup SiteChoices

\* A request with a search term, a source, and only known keys and levels
ValidRequest(request) ==
    /\ Strip(request.terms[1]) # ""
    /\ request.sources # {}
    /\ request.sources \subseteq SourceKeys
    /\ request.seniority \subseteq Range(SeniorityKeys)

\* C11: a run requested with an empty search term, with no source, with
\* an unknown source key or with an unknown seniority level is rejected
\* before a fetch is started, and no adapter is called for it: a request
\* that was let through is valid, and every call of an adapter has a
\* search term and sources.
\* The command line lets -s "" through: cmd_search calls search_jobs with
\* the empty term.
C11_InvalidRequestRejected ==
    /\ press.result = "started" => ValidRequest(press)
    /\ \A k \in 1..Len(calls) :
          Strip(calls[k].term) # "" /\ calls[k].sources # <<>>

(***************************************************************************)
(* scraper.py, posts_scraper.py, extra_scrapers.py: the source adapters.   *)
(* A call is made in an environment: the library of the adapter is         *)
(* installed or not, and each source answers with rows, with nothing, or   *)
(* fails (network, parse or shape).  The functions keep no state between   *)
(* calls, so a behaviour shows one call.                                   *)
(***************************************************************************)

\* What the fetch of one source does
Behaviours == {"rows", "empty", "raises"}

VALID_SITES == {"linkedin", "indeed", "glassdoor", "zip_recruiter"}

PLATFORMS == {"linkedin_posts", "twitter", "instagram", "facebook"}

SCRAPERS == <<"gupy", "remoteok", "vagascom", "geekHunter", "trampos", "reddit", "workana">>

Returned(rows) == [kind |-> "returned", error |-> "", rows |-> rows]

Raised(error) == [kind |-> "raised", error |-> error, rows |-> <<>>]

\* The sources of the list whose fetch gave rows; a fetch that fails is
\* caught in the loop and adds nothing
FetchedFrom(sources, net) == SelectSeq(sources, LAMBDA src : net[src] = "rows")

\* search_jobs(search_term, sites=sites)
search_jobs(sites, installed, net) ==
    LET list == IF sites = NoList THEN <<"linkedin", "indeed", "glassdoor">> ELSE sites.v
        invalid == SelectSeq(list, LAMBDA site : site \notin VALID_SITES)
    IN  IF ~installed THEN Raised("ImportError")
        ELSE IF invalid # <<>> THEN Raised("ValueError")
        ELSE Returned(FetchedFrom(list, net))

\* search_posts(search_term, platforms=platforms)
search_posts(platforms, installed, net) ==
    LET list == IF platforms = NoList THEN <<"linkedin_posts", "twitter">> ELSE platforms.v
        invalid == SelectSeq(list, LAMBDA key : key \notin PLATFORMS)
    IN  IF ~installed THEN Raised("ImportError")
        ELSE IF invalid # <<>> THEN Raised("ValueError")
        ELSE Returned(FetchedFrom(list, net))

\* scrape_gupy, scrape_remoteok, ...: the whole body is in a try block
scrape(key, net) == Returned(FetchedFrom(<<key>>, net))

\* search_extra(search_term, sources=sources): a key that is no scraper is
\* skipped
search_extra(sources, net) ==
    LET list == IF sources = NoList THEN SCRAPERS ELSE sources.v
        known == SelectSeq(list, LAMBDA key : key \in Range(SCRAPERS))
    IN  Returned(FetchedFrom(known, net))

\* The arguments of the model
JobsSites ==
    {NoList, List(<<"indeed">>), List(<<"linkedin", "zip_recruiter">>),
     List(<<"monster">>), List(<<"indeed", "monster">>)}

PostsPlatforms ==
    {NoList, List(<<"twitter">>), List(<<"instagram", "facebook">>), List(<<"tiktok">>)}

ExtraSources ==
    {NoList, List(<<>>), List(<<"gupy">>), List(<<"bogus", "remoteok">>)}

\* The sources a call with these arguments may fetch
SourcesOf(opt, default) == Range(IF opt = NoList THEN default ELSE opt.v)

AdapterCall(adapter, sources, installed, net, result) ==
    [adapter |-> adapter, sources |-> sources, installed |-> installed, net |-> net,
     outcome |-> result]

CallSearchJobs ==
    /\ acall = <<>>
    /\ \E sites \in JobsSites, installed \in BOOLEAN :
          \E net \in [SourcesOf(sites, <<"linkedin", "indeed", "glassdoor">>) -> Behaviours] :
             acall' = AdapterCall("search_jobs", sites, installed, net,
                                  search_jobs(sites, installed, net))
    /\ UNCHANGED <<dbVars, filterVars, runVars, rcall>>

CallSearchPosts ==
    /\ acall = <<>>
    /\ \E platforms \in PostsPlatforms, installed \in BOOLEAN :
          \E net \in [SourcesOf(platforms, <<"linkedin_posts", "twitter">>) -> Behaviours] :
             acall' = AdapterCall("search_posts", platforms, installed, net,
                                  search_posts(platforms, installed, net))
    /\ UNCHANGED <<dbVars, filterVars, runVars, rcall>>

CallSearchExtra ==
    /\ acall = <<>>
    /\ \E sources \in ExtraSources :
          \E net \in [SourcesOf(sources, SCRAPERS) -> Behaviours] :
             acall' = AdapterCall("search_extra", sources, TRUE, net,
                                  search_extra(sources, net))
    /\ UNCHANGED <<dbVars, filterVars, runVars, rcall>>

CallScrape ==
    /\ acall = <<>>
    /\ \E key \in Range(SCRAPERS) :
          \E net \in [{key} -> Behaviours] :
             acall' = AdapterCall("scrape_" \o key, List(<<key>>), TRUE, net,
                                  scrape(key, net))
    /\ UNCHANGED <<dbVars, filterVars, runVars, rcall>>

AdapterInit ==
    /\ DbInit
    /\ fin = <<>>
    /\ fcall = <<>>
    /\ frontend = "none"
    /\ NoRun
    /\ acall = <<>>
    /\ rcall = <<>>

AdapterNext ==
    \/ CallSearchJobs
    \/ CallSearchPosts
    \/ CallSearchExtra
    \/ CallScrape

AdapterSpec == AdapterInit /\ [][AdapterNext]_vars

\* C12: every entry point of a source adapter absorbs its failures: for
\* every input and every failure of the network it returns, and never
\* lets an exception through to its caller.
\* search_jobs and search_posts raise ValueError for a key they do not
\* know and ImportError when their library is missing.
C12_AdaptersNeverRaise ==
    acall # <<>> => acall.outcome.kind = "returned"

\* ---------------------------------------------------------------------
\* Claims on the tasks of a run of the window
\* ---------------------------------------------------------------------

\* The results of the tasks have been merged
AfterMerge ==
    frontend = "gui" /\ (phase \in {"enrich", "filter", "save", "export"} \/ outcome # "none")

\* Every row of the frame is a row of the merged collection
RowsMerged(df) == \A k \in 1..Len(df) : df[k] \in Range(merged)

\* C13: when some fetch tasks raise inside run_task, every other task
\* still runs to its end and its rows are in the merged collection; when
\* every task fails or returns nothing the merged collection is empty and
\* the run ends with the outcome "no results", not with the error outcome.
C13_FailureIsolation ==
    AfterMerge =>
        /\ \A i \in 1..Len(tasks) : threads[i].pc = "done" /\ RowsMerged(threads[i].result)
        /\ (\A i \in 1..Len(tasks) : threads[i].result = <<>>) =>
               merged = <<>> /\ outcome = "no_results"

\* A task has raised, another has returned rows, and the rows are merged
C13_Witness ==
    /\ AfterMerge
    /\ phase = "enrich"
    /\ \E i, j \in 1..Len(tasks) :
          /\ threads[i].raised
          /\ threads[j].result # <<>>
          /\ RowsMerged(threads[j].result)

\* The sources selected for the run: boards, extra sources and platforms
SelectedSources(p) ==
    Range(p.sites) \cup Range(OrEmpty(p.extra_sources)) \cup Range(OrEmpty(p.post_platforms))

\* The tasks of the list for this term and this source
TasksFor(term, source) ==
    {i \in 1..Len(tasks) : tasks[i].term = term /\ tasks[i].source = source}

\* C14: the list of tasks is the cross-product of the search terms with
\* the selected boards, extra sources and platforms: its length is
\* |terms| x (|sites| + |extra_sources| + |post_platforms|), and each pair
\* of a term and a source has exactly one task, none missing, none twice.
\* The main term may be entered again as an additional term; each of its
\* pairs then has two tasks.
C14_OneTaskPerPair ==
    (frontend = "gui" /\ tasks # <<>>) =>
        /\ Len(tasks) = Len(params.search_terms) * Cardinality(SelectedSources(params))
        /\ \A term \in Range(params.search_terms), source \in SelectedSources(params) :
              Cardinality(TasksFor(term, source)) = 1

(***************************************************************************)
(* gui.py: the pool of _run_search with more tasks than threads.  A task   *)
(* taken by a thread is followed to its return in one step: run_task from  *)
(* the call of the adapter to return result.  The order of the returns     *)
(* (finished) is not recorded in this specification.  The threads of the   *)
(* pool keep running and every adapter call ends, by a return or by an     *)
(* exception: weak fairness on each step.                                  *)
(***************************************************************************)

\* Runs of 1, 9 and 10 tasks
PoolForms ==
    { Form("python", <<>>, {"linkedin"}, {}, {}, {}),
      Form("python", <<"java", "react">>, {"linkedin", "indeed", "glassdoor"}, {}, {}, {}),
      Form("dev", <<>>, {"linkedin", "indeed", "glassdoor"}, Range(ExtraKeys), {}, {}) }

\* run_task, from the call of the adapter to its return: the adapter
\* returns a row or raises, the counter is incremented under the lock and
\* the progress event is posted
RunTask ==
    /\ lock = 0
    /\ \E i \in 1..Len(tasks) :
          /\ threads[i].pc = "fetching"
          /\ \E raised \in BOOLEAN :
                threads' = [threads EXCEPT ![i].pc = "done", ![i].raised = raised,
                               ![i].result = IF raised THEN <<>> ELSE <<[task |-> i, n |-> 1]>>]
    /\ completed_count' = completed_count + 1
    /\ events' = Append(events, <<completed_count + 1, Len(tasks)>>)
    /\ UNCHANGED <<frontend, is_running, press, params, tasks, lock, finished, phase,
                   merged, outcome, calls, dbVars, filterVars, acall, rcall, io>>

PoolInit ==
    /\ DbInit
    /\ fin = <<>>
    /\ fcall = <<>>
    /\ acall = <<>>
    /\ rcall = <<>>
    /\ frontend = "gui"
    /\ \E form \in PoolForms :
          /\ press = PressOf("started", form)
          /\ params = ParamsOf(form)
    /\ is_running = TRUE
    /\ phase = "started"
    /\ tasks = <<>>
    /\ threads = <<>>
    /\ completed_count = 0
    /\ lock = 0
    /\ events = <<>>
    /\ finished = <<>>
    /\ merged = <<>>
    /\ outcome = "none"
    /\ calls = <<>>
    /\ io = [NoIo EXCEPT !.runs = 1]

PoolNext ==
    \/ BuildTasks
    \/ StartTask
    \/ RunTask
    \/ Merge

PoolFairness ==
    /\ WF_vars(BuildTasks)
    /\ WF_vars(StartTask)
    /\ WF_vars(RunTask)
    /\ WF_vars(Merge)

PoolSpec == PoolInit /\ [][PoolNext]_vars /\ PoolFairness

\* The tasks a thread has taken
Started(ts) == {i \in 1..Len(ts) : ts[i].pc # "pending"}

\* C15: at every moment of a run the number of fetch tasks executing at
\* the same time is at most min(8, number of tasks); every task of the
\* list is taken once, in the order of the list (one adapter call for each
\* task taken), and every task is eventually executed to its end.
C15_BoundedPool ==
    /\ [](/\ Cardinality(Running(threads)) <= Min(8, Len(tasks))
          /\ Len(calls) = Cardinality(Started(threads))
          /\ \A k \in 1..Len(calls) :
                calls[k] = Call(tasks[k].kind, tasks[k].term, <<tasks[k].source>>))
    /\ <>(tasks # <<>> /\ PoolDrained(threads) /\ Len(calls) = Len(tasks))

\* Eight tasks are executing and a ninth waits for a thread
C15_Witness ==
    /\ Cardinality(Running(threads)) = 8
    /\ \E i \in 1..Len(tasks) : threads[i].pc = "pending"

\* C16: in every interleaving of the threads, enrich_recruiter_info, and
\* so the filters and save_jobs after it, starts only when every fetch
\* task has returned or has had its exception caught: no task is waiting
\* or executing from the enrichment on.
C16_Barrier ==
    (frontend = "gui" /\ phase \in {"enrich", "filter", "finally"}) =>
        /\ Running(threads) = {}
        /\ \A i \in 1..Len(tasks) : threads[i].pc = "done"

\* The enrichment is about to start after three tasks that did not return
\* in the order of the list, one of them by an exception
C16_Witness ==
    /\ frontend = "gui"
    /\ phase = "enrich"
    /\ Len(tasks) = 3
    /\ finished = <<3, 1, 2>>
    /\ threads[1].raised

\* The place of the task in the order of the returns
ReturnRank(i) == CHOOSE k \in 1..Len(finished) : finished[k] = i

\* Every row of every task is in the merged collection once, and nothing else
MergedIsUnionOfResults ==
    /\ \A i \in 1..Len(tasks) : \A k \in 1..Len(threads[i].result) :
          Cardinality({a \in 1..Len(merged) : merged[a] = threads[i].result[k]}) = 1
    /\ \A a \in 1..Len(merged) :
          \E i \in 1..Len(tasks) : \E k \in 1..Len(threads[i].result) :
             merged[a] = threads[i].result[k]

\* C17 as stated: the merged collection handed to the enricher is the
\* concatenation of the task results in the order in which the tasks
\* finished: a row of a task that returned earlier comes before a row of
\* a task that returned later.
C17_CompletionOrder ==
    (frontend = "gui" /\ phase = "enrich") =>
        /\ MergedIsUnionOfResults
        /\ \A a, b \in 1..Len(merged) :
              a < b => ReturnRank(merged[a].task) <= ReturnRank(merged[b].task)

\* C17, amended: the merged collection handed to the enricher is the
\* concatenation of the task results in the order of the list of tasks,
\* whatever the order in which the tasks finished: a row of a task that
\* is earlier in the list comes before a row of a later task, and the rows
\* of one task keep their order.
C17_TaskListOrder ==
    (frontend = "gui" /\ phase = "enrich") =>
        /\ MergedIsUnionOfResults
        /\ \A a, b \in 1..Len(merged) :
              a < b => \/ merged[a].task < merged[b].task
                       \/ merged[a].task = merged[b].task /\ merged[a].n < merged[b].n

\* The second task of the list returned first, both have rows, and the
\* rows of the first task are first in the merged collection
C17_Witness ==
    /\ frontend = "gui"
    /\ phase = "enrich"
    /\ Len(tasks) >= 2
    /\ finished[1] = 2
    /\ threads[1].result # <<>>
    /\ threads[2].result # <<>>
    /\ merged[1].task = 1

\* The values of completed attached to the progress events posted so far
CompletedValues == {events[k][1] : k \in 1..Len(events)}

\* C18: completed_count is incremented under the lock once for each task,
\* returned or failed: in every interleaving the values of the (completed,
\* total) events are pairwise distinct and never above total, and when the
\* pool has drained they are exactly 1..total and the counter is total.
C18_ProgressCounter ==
    (frontend = "gui" /\ tasks # <<>>) =>
        /\ \A k \in 1..Len(events) :
              /\ events[k][2] = Len(tasks)
              /\ events[k][1] \in 1..Len(tasks)
        /\ \A k, l \in 1..Len(events) : k # l => events[k][1] # events[l][1]
        /\ completed_count <= Len(tasks)
        /\ PoolDrained(threads) =>
              /\ completed_count = Len(tasks)
              /\ Len(events) = Len(tasks)
              /\ CompletedValues = 1..Len(tasks)

\* Three tasks, one of them failed, have drained, and the event of the
\* second increment was posted before the event of the first
C18_Witness ==
    /\ frontend = "gui"
    /\ phase = "pool"
    /\ Len(tasks) = 3
    /\ PoolDrained(threads)
    /\ \E i \in 1..3 : threads[i].raised
    /\ events = << <<2, 3>>, <<1, 3>>, <<3, 3>> >>

(***************************************************************************)
(* recruiter.py.  Its two regular expressions are used for what they       *)
(* match, not only for whether they match: Paths gives the matches of a    *)
(* term that start after position i of the text in the order in which the  *)
(* backtracking matcher of re tries them (an alternative before the next   *)
(* one, a longer repetition before a shorter one), each with the span of   *)
(* its capture group; the first of them is the match re returns.  The full *)
(* width colon of the patterns is written ";".                             *)
(***************************************************************************)
Group(r) == [t |-> "group", r |-> r]
Rep(lo, hi, r) == [t |-> "rep", lo |-> lo, hi |-> hi, r |-> r]

NoSpan == <<>>
Path(e, g) == [e |-> e, g |-> g]

RECURSIVE Paths(_, _, _), Continued(_, _, _, _), CatPaths(_, _, _, _),
          AltPaths(_, _, _, _), RepPaths(_, _, _, _, _, _), RepAfter(_, _, _, _, _, _, _)

Paths(re, text, i) ==
    CASE re.t \in {"lit", "in", "b"} ->
            LET es == Ends(re, text, i)
            IN  IF es = {} THEN <<>> ELSE <<Path(CHOOSE e \in es : TRUE, NoSpan)>>
      [] re.t = "cat" -> CatPaths(re.rs, 1, text, <<Path(i, NoSpan)>>)
      [] re.t = "alt" -> AltPaths(re.rs, 1, text, i)
      [] re.t = "opt" -> Paths(re.r, text, i) \o <<Path(i, NoSpan)>>
      [] re.t = "many" -> RepPaths(re.r, re.lo, Len(text) + 1, text, i, 0)
      [] re.t = "rep" -> RepPaths(re.r, re.lo, re.hi, text, i, 0)
      [] re.t = "group" ->
            LET ps == Paths(re.r, text, i)
            IN  [k \in 1..Len(ps) |-> Path(ps[k].e, <<i, ps[k].e>>)]

\* The paths from[k], from[k+1], ... each continued by a match of re
Continued(re, text, from, k) ==
    IF k > Len(from)
    THEN <<>>
    ELSE LET ps == Paths(re, text, from[k].e)
         IN  [j \in 1..Len(ps) |->
                 Path(ps[j].e, IF ps[j].g # NoSpan THEN ps[j].g ELSE from[k].g)]
             \o Continued(re, text, from, k + 1)

\* The terms rs[k], rs[k+1], ... in a row after the paths of from
CatPaths(rs, k, text, from) ==
    IF k > Len(rs) \/ from = <<>>
    THEN from
    ELSE CatPaths(rs, k + 1, text, Continued(rs[k], text, from, 1))

\* The alternatives rs[k], rs[k+1], ..., the earlier one first
AltPaths(rs, k, text, i) ==
    IF k > Len(rs) THEN <<>> ELSE Paths(rs[k], text, i) \o AltPaths(rs, k + 1, text, i)

\* r repeated lo to hi times, greedily, n repetitions being done
RepPaths(r, lo, hi, text, i, n) ==
    LET once == IF n < hi THEN SelectSeq(Paths(r, text, i), LAMBDA q : q.e > i) ELSE <<>>
    IN  RepAfter(r, lo, hi, text, once, 1, n + 1)
            \o (IF n >= lo THEN <<Path(i, NoSpan)>> ELSE <<>>)

RepAfter(r, lo, hi, text, from, k, n) ==
    IF k > Len(from)
    THEN <<>>
    ELSE LET ps == RepPaths(r, lo, hi, text, from[k].e, n)
         IN  [j \in 1..Len(ps) |->
                 Path(ps[j].e, IF ps[j].g # NoSpan THEN ps[j].g ELSE from[k].g)]
             \o RepAfter(r, lo, hi, text, from, k + 1, n)

NoMatch == [found |-> FALSE, start |-> 0, e |-> 0, g |-> NoSpan]

\* re.search from position i on: the match at the leftmost position where
\* the term matches
RECURSIVE SearchFrom(_, _, _)

SearchFrom(re, text, i) ==
    IF i > Len(text)
    THEN NoMatch
    ELSE LET ps == Paths(re, text, i)
         IN  IF ps = <<>>
             THEN SearchFrom(re, text, i + 1)
             ELSE [found |-> TRUE, start |-> i, e |-> ps[1].e, g |-> ps[1].g]

\* re.findall of a pattern without groups: the matches from left to
\* right, each searched from the end of the one before
RECURSIVE FindAll(_, _, _)

FindAll(re, text, i) ==
    LET m == SearchFrom(re, text, i)
    IN  IF ~m.found
        THEN <<>>
        ELSE <<SubSeq(text, m.start + 1, m.e)>>
                \o FindAll(re, text, IF m.e > m.start THEN m.e ELSE m.start + 1)

\* str.endswith(suffix)
EndsWith(text, suffix) ==
    Len(text) >= Len(suffix) /\ SubSeq(text, Len(text) - Len(suffix) + 1, Len(text)) = suffix

\* [a-zA-Z0-9._%+\-]+@[a-zA-Z0-9.\-]+\.[a-zA-Z]{2,}
_EMAIL_RE ==
    LET alnum == Chars(LowerAscii) \cup Chars(UpperAscii) \cup DigitChars
    IN  Cat(<<Many(1, In(alnum \cup {".", "_", "%", "+", "-"})), Lit("@"),
              Many(1, In(alnum \cup {".", "-"})), Lit("."),
              Many(2, In(Chars(LowerAscii) \cup Chars(UpperAscii)))>>)

\* [A-Z]-[U-acute][a-z]-[u-acute]+(?:\s+[A-Z]-[U-acute][a-z]-[u-acute]+){1,3}
NameWord ==
    Cat(<<In(Chars(UpperAscii) \cup Chars(UpperAccents)),
          Many(1, In(Chars(LowerAscii) \cup Chars(LowerAccents)))>>)

NameGroup == Group(Cat(<<NameWord, Rep(1, 3, Cat(<<Many(1, In(Whitespace)), NameWord>>))>>))

\* \s*[:;]\s*
Colon == Cat(<<Many(0, In(Whitespace)), In({":", ";"}), Many(0, In(Whitespace))>>)

_NAME_PATTERNS ==
    <<
      \* recrut[ao]dor[a]?\s*[:;]\s*(...)
      Cat(<<Text("recrut"), In({"a", "o"}), Text("dor"), Opt(In({"a"})), Colon, NameGroup>>),
      \* contato\s*[:;]\s*(...)
      Cat(<<Text("contato"), Colon, NameGroup>>),
      \* posted\s+by\s+(...)
      Cat(<<Text("posted"), Many(1, In(Whitespace)), Text("by"), Many(1, In(Whitespace)),
            NameGroup>>),
      \* hiring\s+manager\s*[:;]\s*(...)
      Cat(<<Text("hiring"), Many(1, In(Whitespace)), Text("manager"), Colon, NameGroup>>),
      \* contact\s+(...)\s+at\b
      Cat(<<Text("contact"), Many(1, In(Whitespace)), NameGroup, Many(1, In(Whitespace)),
            Text("at"), WordB>>),
      \* recruiter\s*[:;]\s*(...)
      Cat(<<Text("recruiter"), Colon, NameGroup>>),
      \* respons[a[]vel\s*[:;]\s*(...)
      Cat(<<Text("respons"), In({"a", "["}), Text("vel"), Colon, NameGroup>>),
      \* apply\s+to\s+(...)
      Cat(<<Text("apply"), Many(1, In(Whitespace)), Text("to"), Many(1, In(Whitespace)),
            NameGroup>>) >>

\* re.compile("|".join(_NAME_PATTERNS), re.IGNORECASE)
_NAME_RE == Alt(_NAME_PATTERNS)

ImageSuffixes == <<".png", ".jpg", ".gif", ".svg">>

\* _extract_email_from_text without the filter of line 46: the first
\* e-mail found
_extract_first_email(text) ==
    IF text = ""
    THEN None
    ELSE LET found == FindAll(_EMAIL_RE, text, 0)
         IN  IF found # <<>> THEN Str(found[1]) ELSE None

\* _extract_email_from_text(text)
_extract_email_from_text(text) ==
    IF text = ""
    THEN None
    ELSE LET found == FindAll(_EMAIL_RE, text, 0)
             filtered == SelectSeq(found,
                             LAMBDA e : \A k \in 1..Len(ImageSuffixes) : ~EndsWith(e, ImageSuffixes[k]))
         IN  IF filtered # <<>> THEN Str(filtered[1]) ELSE None

\* The text of the capture group of a match: the first group of m.groups()
\* that is not None, stripped
GroupOf(m, text) ==
    IF m.found /\ m.g # NoSpan /\ m.g[2] > m.g[1]
    THEN Str(Strip(SubSeq(text, m.g[1] + 1, m.g[2])))
    ELSE None

\* _extract_name_from_text(text)
_extract_name_from_text(text) ==
    IF text = "" THEN None ELSE GroupOf(SearchFrom(_NAME_RE, text, 0), text)

\* The descriptions of the model
DescriptionTexts ==
    { "",
      "sem email",
      "fale com jane@acme.com ou logo@cdn.example.png",
      "logo@cdn.example.png jane@acme.com",
      "img x@y.svg",
      "foto@site.PNG",
      "rh.vagas+dev@empresa.com.br.",
      "Contato: Maria Silva",
      "Apply to Ana Lima. Contato: Joao Souza",
      "Recrutadora: Ana Reis Contato: Bia Luz",
      "contact Bob Lee at Acme",
      "RECRUTADOR ; jose pereira",
      "Posted by Li",
      "Respons[vel: ]gata Luz e cia",
      "Contato: Ana Paz rh@acme.com" }

\* The cells of column descricao, and of column emails
DescriptionCells == {None, NaN} \cup {Str(d) : d \in DescriptionTexts}

EmailsCells ==
    {None, NaN, Str(""), Str("rh@acme.com"), Str(" rh@acme.com "), Str("a@b.io, c@d.io"),
     Str("nan"), Str("None"), Str("  ")}

\* A row of a DataFrame of postings: a cell for each column
RecruiterRow(cols, titulo, emails, descricao) ==
    [c \in cols |->
        CASE c = "titulo" -> titulo
          [] c = "emails" -> emails
          [] OTHER -> descricao]

WithEmails == {"titulo", "emails", "descricao"}
WithoutEmails == {"titulo", "descricao"}

\* The rows of the frames of one row
RecruiterRows(cols) ==
    {RecruiterRow(cols, Str("Dev"), e, d) :
        e \in (IF "emails" \in cols THEN EmailsCells ELSE {None}), d \in DescriptionCells}

\* The rows of the frames of two different rows
PairRows(cols) ==
    {RecruiterRow(cols, t, e, d) :
        t \in {Str("Dev"), None},
        e \in (IF "emails" \in cols THEN {None, Str("rh@acme.com")} ELSE {None}),
        d \in {None, Str("sem email"), Str("logo@cdn.example.png jane@acme.com"),
               Str("Contato: Maria Silva"), Str("Contato: Ana Paz rh@acme.com")}}

\* A DataFrame of postings: its columns and its rows.  The frames of the
\* model have one row, the same row twice, or two rows
RecruiterFramesOf(cols) ==
    {[cols |-> cols, rows |-> <<row>>] : row \in RecruiterRows(cols)}
    \cup {[cols |-> cols, rows |-> <<row, row>>] : row \in RecruiterRows(cols)}
    \cup {[cols |-> cols, rows |-> <<row, other>>] : row \in PairRows(cols), other \in PairRows(cols)}

RecruiterFrames == RecruiterFramesOf(WithEmails) \cup RecruiterFramesOf(WithoutEmails)

\* row.get(col)
RowGet(row, col) == IF col \in DOMAIN row THEN row[col] ELSE None

\* Python's truth value of a cell: None and "" are false, NaN is true
CellTruthy(cell) == cell.k = "nan" \/ (cell.k = "str" /\ cell.s # "")

\* str(row.get("descricao") or "")
DescriptionOf(row) ==
    LET d == RowGet(row, "descricao") IN IF CellTruthy(d) THEN PyStr(d) ELSE ""

\* The texts _extract_email_from_text and _extract_name_from_text are
\* called with, and their results
ScannedTexts == DescriptionTexts \cup {"nan"}

EmailTable == [text \in ScannedTexts |-> _extract_email_from_text(text)]

NameTable == [text \in ScannedTexts |-> _extract_name_from_text(text)]

\* enrich_recruiter_info._get_email(row)
_get_email(row) ==
    LET raw == RowGet(row, "emails")
    IN  IF CellTruthy(raw) /\ PyStr(raw) \notin {"", "nan", "None"}
        THEN Str(Strip(PyStr(raw)))
        ELSE EmailTable[DescriptionOf(row)]

\* enrich_recruiter_info._get_name(row)
_get_name(row) == NameTable[DescriptionOf(row)]

\* An enrichment that fills a missing e-mail with the e-mail of the row
\* before
enrich_filling_down(df) ==
    LET cols == (df.cols \cup {"email_recrutador", "nome_recrutador"}) \ {"emails"}
        email(i) == IF i > 1 /\ _get_email(df.rows[i]) = None
                    THEN _get_email(df.rows[i - 1])
                    ELSE _get_email(df.rows[i])
    IN  [cols |-> cols,
         rows |-> [i \in 1..Len(df.rows) |->
                     [c \in cols |->
                        CASE c = "email_recrutador" -> email(i)
                          [] c = "nome_recrutador" -> _get_name(df.rows[i])
                          [] OTHER -> df.rows[i][c]]]]

\* enrich_recruiter_info(df): the two columns added, column emails dropped
enrich_recruiter_info(df) ==
    LET cols == (df.cols \cup {"email_recrutador", "nome_recrutador"}) \ {"emails"}
    IN  [cols |-> cols,
         rows |-> [i \in 1..Len(df.rows) |->
                     [c \in cols |->
                        CASE c = "email_recrutador" -> _get_email(df.rows[i])
                          [] c = "nome_recrutador" -> _get_name(df.rows[i])
                          [] OTHER -> df.rows[i][c]]]]

NoRecruiterFrame == [cols |-> {}, rows |-> <<>>]

\* A call: its argument as it is before (df) and after (left) the call,
\* and its result
RecruiterCall(op, df, text, out) ==
    [op |-> op, df |-> df, left |-> df, text |-> text, out |-> out]

CallEnrichRecruiterInfo ==
    /\ rcall = <<>>
    /\ \E df \in RecruiterFrames :
          rcall' = RecruiterCall("enrich_recruiter_info", df, "", enrich_recruiter_info(df))
    /\ UNCHANGED <<dbVars, filterVars, runVars, acall>>

CallExtractEmail ==
    /\ rcall = <<>>
    /\ \E text \in ScannedTexts :
          rcall' = RecruiterCall("_extract_email_from_text", NoRecruiterFrame, text,
                                 EmailTable[text])
    /\ UNCHANGED <<dbVars, filterVars, runVars, acall>>

CallExtractName ==
    /\ rcall = <<>>
    /\ \E text \in ScannedTexts :
          rcall' = RecruiterCall("_extract_name_from_text", NoRecruiterFrame, text,
                                 NameTable[text])
    /\ UNCHANGED <<dbVars, filterVars, runVars, acall>>

RecruiterInit ==
    /\ DbInit
    /\ fin = <<>>
    /\ fcall = <<>>
    /\ frontend = "none"
    /\ NoRun
    /\ acall = <<>>
    /\ rcall = <<>>

RecruiterNext ==
    \/ CallEnrichRecruiterInfo
    \/ CallExtractEmail
    \/ CallExtractName

RecruiterSpec == RecruiterInit /\ [][RecruiterNext]_vars

\* ---------------------------------------------------------------------
\* Claims on recruiter.py
\* ---------------------------------------------------------------------

IsEnrichCall == rcall # <<>> /\ rcall.op = "enrich_recruiter_info"

\* The e-mail shaped tokens of the text, from left to right
EmailTokens == [text \in ScannedTexts |-> FindAll(_EMAIL_RE, text, 0)]

IsImageToken(token) == \E k \in 1..Len(ImageSuffixes) : EndsWith(token, ImageSuffixes[k])

\* The e-mail is the first token of the description that does not end in
\* an image suffix, and null if there is none
EmailFromDescription(email, text) ==
    LET tokens == EmailTokens[text]
    IN  IF \A k \in 1..Len(tokens) : IsImageToken(tokens[k])
        THEN email = None
        ELSE \E k \in 1..Len(tokens) :
                /\ email = Str(tokens[k])
                /\ ~IsImageToken(tokens[k])
                /\ \A j \in 1..(k - 1) : IsImageToken(tokens[j])

\* C19 as stated: recruiter_email is the raw contact hint (emails) when
\* the hint is present and not empty; otherwise the first e-mail shaped
\* token of the description that does not end in .png, .jpg, .gif or
\* .svg; and null when neither exists.
C19_EmailFromHint ==
    IsEnrichCall =>
        \A i \in 1..Len(rcall.df.rows) :
           LET hint == RowGet(rcall.df.rows[i], "emails")
               email == rcall.out.rows[i]["email_recrutador"]
           IN  IF hint.k = "str" /\ hint.s # ""
               THEN email = hint
               ELSE EmailFromDescription(email, DescriptionOf(rcall.df.rows[i]))

\* C19, amended: recruiter_email is the contact hint (emails) with the
\* white space around it removed when the hint is a text other than "",
\* "nan" and "None"; otherwise the first e-mail shaped token of the
\* description that does not end in .png, .jpg, .gif or .svg; and null
\* when neither exists, so that no token with one of these suffixes is
\* returned from the description.
C19_EmailFromTrimmedHint ==
    IsEnrichCall =>
        \A i \in 1..Len(rcall.df.rows) :
           LET hint == RowGet(rcall.df.rows[i], "emails")
               email == rcall.out.rows[i]["email_recrutador"]
           IN  IF hint.k = "str" /\ hint.s \notin {"", "nan", "None"}
               THEN email = Str(Strip(hint.s))
               ELSE /\ EmailFromDescription(email, DescriptionOf(rcall.df.rows[i]))
                    /\ email.k = "str" => ~IsImageToken(email.s)

\* No hint, and a description whose first e-mail shaped token is the name
\* of an image: the second token is the e-mail
C19_Witness ==
    /\ IsEnrichCall
    /\ RowGet(rcall.df.rows[1], "emails") \in {None, NaN}
    /\ DescriptionOf(rcall.df.rows[1]) = "logo@cdn.example.png jane@acme.com"
    /\ rcall.out.rows[1]["email_recrutador"] = Str("jane@acme.com")

\* The patterns of the list that match somewhere in the text
Satisfied(text) ==
    {k \in 1..Len(_NAME_PATTERNS) : SearchFrom(_NAME_PATTERNS[k], text, 0).found}

\* The name captured by the first pattern of the list that the text
\* satisfies, null if it satisfies none
NameByPriority ==
    [text \in ScannedTexts |->
        IF Satisfied(text) = {}
        THEN None
        ELSE LET k == CHOOSE k \in Satisfied(text) : \A j \in Satisfied(text) : k <= j
             IN  GroupOf(SearchFrom(_NAME_PATTERNS[k], text, 0), text)]

\* C20: recruiter_name is decided by the priority of the patterns: when a
\* description satisfies several patterns of _NAME_PATTERNS, the name
\* captured by the pattern that comes first in the list is returned,
\* wherever the matches lie in the text; when no pattern matches the
\* result is null.
\* _NAME_RE.search returns the match that starts leftmost in the text,
\* whatever its place in the list.
C20_NameByPatternPriority ==
    IsEnrichCall =>
        \A i \in 1..Len(rcall.df.rows) :
           rcall.out.rows[i]["nome_recrutador"] = NameByPriority[DescriptionOf(rcall.df.rows[i])]

\* The frame of the one row i of df
OnlyRow(df, i) == [cols |-> df.cols, rows |-> <<df.rows[i]>>]

\* C21: the recruiter_email and recruiter_name computed for a posting by
\* enrich_recruiter_info on a collection that holds it are those computed
\* by enrich_recruiter_info on the posting alone; so the enrichment of
\* [P] is the first element of the enrichment of [P, P].
C21_EnrichmentPurity ==
    IsEnrichCall =>
        \A i \in 1..Len(rcall.df.rows) :
           rcall.out.rows[i] = enrich_recruiter_info(OnlyRow(rcall.df, i)).rows[1]

\* Two different postings: the first has an e-mail in its description,
\* the second has none and gets none
C21_Witness ==
    /\ IsEnrichCall
    /\ Len(rcall.df.rows) = 2
    /\ rcall.df.rows[1] # rcall.df.rows[2]
    /\ rcall.out.rows[1]["email_recrutador"] = Str("jane@acme.com")
    /\ rcall.out.rows[2]["email_recrutador"] = None
    /\ rcall.out.rows[2]["nome_recrutador"] = Str("Maria Silva")

\* C22: enrich_recruiter_info returns the same number of rows in the same
\* order, leaves its argument as it was, and only adds recruiter_email and
\* recruiter_name to a posting: every other field, the raw contact hint
\* (emails) included, is in the output and unchanged.
\* The function drops column emails from its result.
C22_EnrichmentFrame ==
    IsEnrichCall =>
        /\ rcall.left = rcall.df
        /\ Len(rcall.out.rows) = Len(rcall.df.rows)
        /\ rcall.out.cols = rcall.df.cols \cup {"email_recrutador", "nome_recrutador"}
        /\ \A i \in 1..Len(rcall.df.rows) : \A c \in rcall.df.cols :
              rcall.out.rows[i][c] = rcall.df.rows[i][c]

\* ---------------------------------------------------------------------
\* Further claims on database.py, checked under Spec
\* ---------------------------------------------------------------------

\* A step that is a call of delete_all
IsDeleteStep == dbCall'.par # dbCall.par /\ dbCall'.op = "delete_all"

\* C23: a stored row is never changed: no later call of save_jobs, even
\* with the same link and other field values or another search term,
\* changes a field of it, termo_busca and data_coleta of its first
\* insertion included; the stored rows only grow in number between two
\* calls of delete_all.
C23_RowsImmutable ==
    [][~IsDeleteStep =>
          /\ Len(store') >= Len(store)
          /\ \A i \in 1..Len(store) : store'[i] = store[i]]_vars

\* A call of save_jobs, in a later second and with another search term,
\* offered a stored link with another title; the stored row has the
\* values of its first insertion
C23_Witness ==
    /\ dbCall.op = "save_jobs"
    /\ \E i \in 1..Len(dbCall.df), j \in 1..dbCall.totalBefore :
          /\ DbStr(dbCall.df[i].link) = store[j].link
          /\ DbStr(dbCall.df[i].titulo) # store[j].titulo
          /\ Str(dbCall.search_term) # store[j].termo_busca
          /\ clock # store[j].data_coleta

\* A step that is a call of load_history
IsLoadStep == dbCall'.par # dbCall.par /\ dbCall'.op = "load_history"

\* s with its ASCII letters in lower case
RECURSIVE FoldAscii(_)
FoldAscii(s) ==
    IF s = "" THEN "" ELSE AsciiLower(CharAt(s, 1)) \o FoldAscii(SubSeq(s, 2, Len(s)))

\* cell is a text that contains f, letters compared regardless of case
ContainsFolded(cell, f) ==
    /\ cell # NULL
    /\ \E k \in 0..(Len(cell.s) - Len(f)) :
          FoldAscii(SubSeq(cell.s, k + 1, k + Len(f))) = FoldAscii(f)

\* The rows are in non-increasing order of data_coleta
NewestFirst(rows) ==
    \A i, j \in 1..Len(rows) : i < j => rows[i].data_coleta >= rows[j].data_coleta

\* Every row has search_filter in its titulo, empresa or termo_busca
RowsContain(rows, search_filter) ==
    \A i \in 1..Len(rows) :
        \/ ContainsFolded(rows[i].titulo, search_filter)
        \/ ContainsFolded(rows[i].empresa, search_filter)
        \/ ContainsFolded(rows[i].termo_busca, search_filter)

\* Every row is of the site asked for
RowsOfSite(rows, site_filter) ==
    \A i \in 1..Len(rows) : rows[i].site = Str(site_filter)

\* C24: load_history(limit, search_filter, site_filter) returns at most
\* limit rows, newest first; with a search_filter every returned row
\* contains it (letters regardless of case, as the specification reads
\* "substring") in its titulo, empresa or termo_busca; with a site_filter
\* other than "" and "Todos" every returned row is of that site; the
\* store is left as it was.
C24_LoadHistoryContract ==
    [][IsLoadStep =>
          /\ store' = store
          /\ Len(dbCall'.rows) <= dbCall'.limit
          /\ NewestFirst(dbCall'.rows)
          /\ dbCall'.search_filter # "" => RowsContain(dbCall'.rows, dbCall'.search_filter)
          /\ dbCall'.site_filter \notin {"", "Todos"} =>
                RowsOfSite(dbCall'.rows, dbCall'.site_filter)]_vars

\* C25: a failure of the storage during save_jobs is fatal: it reaches the
\* caller as an error (which ends the run in its error outcome); it is
\* not turned into a return that looks successful with fewer rows
\* inserted.
C25_StoreFailureFatal ==
    (dbCall.op = "save_jobs" /\ dbCall.failed) => dbCall.raised

\* The DataFrame row a stored row was written from
WrittenFrom(r, row) ==
    /\ r.link = DbStr(row.link)
    /\ r.site = DbStr(row.site)
    /\ r.titulo = DbStr(row.titulo)

\* The source gave no remote signal: the cell is None or NaN
NoRemoteSignal(row) == row.remoto.k \in {"none", "nan"}

\* C26: remoto is never null: every row save_jobs writes has a boolean
\* remoto (0 or 1), and it is false (0) whenever the posting came without
\* a remote signal, a None or NaN cell of the merged DataFrame included.
C26_RemoteNeverNull ==
    [][IsSaveStep =>
          \A j \in (Len(store) + 1)..Len(store') :
              /\ store'[j].remoto \in {0, 1}
              /\ \A i \in 1..Len(dbCall'.df) :
                    (WrittenFrom(store'[j], dbCall'.df[i]) /\ NoRemoteSignal(dbCall'.df[i]))
                        => store'[j].remoto = 0]_vars

\* ---------------------------------------------------------------------
\* extra_scrapers.py: the row limit of every scraper and the paging loop of
\* scrape_gupy (specification PagingSpec). The rows are counted, their
\* fields do not matter here.
\* ---------------------------------------------------------------------

\* limit = min(results_wanted, 40)
GupyPageSize == 40

\* results_wanted: none, less than a page, a page, more than one and more
\* than two pages
ResultsWanted == {0, 1, 2, 40, 41, 81}

\* The number of jobs in one response of the source (it need not respect
\* the limit asked for)
PageSizes == {0, 1, 2, 40, 41}

\* body.get("total", 0)
Totals == {0, 1, 41, 100, 200}

\* A response of the source: a page of jobs with the total it reports, or
\* anything that raises inside the try (no connection, an HTTP error
\* status, a body that is not the JSON expected)
GupyResponses ==
    {[kind |-> "raises", jobs |-> 0, total |-> 0]}
        \cup {[kind |-> "page", jobs |-> n, total |-> t] : n \in PageSizes, t \in Totals}

NoResponse == [kind |-> "none", jobs |-> 0, total |-> 0]

GupyLimit(results_wanted) == Min(results_wanted, GupyPageSize)

\* An offset that does not advance (used to test C27)
OffsetKept(offset, limit) == offset

\* offset += limit
NextOffset(offset, limit) == offset + limit

\* rows[:results_wanted], as a number of rows
Sliced(rows, results_wanted) == Min(rows, results_wanted)

\* A call of a scraper: its argument, the locals of the loop, the place
\* it is at, why the loop was left and the number of rows returned
ScraperCall(op, results_wanted, rows, offset, requests, last, pc, stop, out) ==
    [op |-> op, results_wanted |-> results_wanted, limit |-> GupyLimit(results_wanted),
     rows |-> rows, offset |-> offset, requests |-> requests, last |-> last,
     pc |-> pc, stop |-> stop, out |-> out]

GupyAt(pc) == acall # <<>> /\ acall.op = "scrape_gupy" /\ acall.pc = pc

\* scrape_gupy(search_term, results_wanted) is called
ScrapeGupy ==
    /\ acall = <<>>
    /\ \E results_wanted \in ResultsWanted :
          acall' = ScraperCall("scrape_gupy", results_wanted, 0, 0, 0, NoResponse,
                               "while", "none", 0)
    /\ UNCHANGED <<dbVars, filterVars, runVars, rcall>>

\* One turn of while len(rows) < results_wanted: the request, the rows of
\* the page, the new offset and the two breaks; an exception ends the call
\* with an empty DataFrame
GupyRequest ==
    /\ GupyAt("while")
    /\ acall.rows < acall.results_wanted
    /\ \E resp \in GupyResponses :
          LET sent == [acall EXCEPT !.requests = @ + 1, !.last = resp]
              offset == NextOffset(acall.offset, acall.limit)
          IN  acall' =
                CASE resp.kind = "raises" ->
                       [sent EXCEPT !.pc = "done", !.stop = "raises", !.out = 0]
                  [] resp.kind = "page" /\ resp.jobs = 0 ->
                       [sent EXCEPT !.pc = "return", !.stop = "empty_page"]
                  [] OTHER ->
                       LET read == [sent EXCEPT !.rows = @ + resp.jobs, !.offset = offset]
                       IN  IF offset >= resp.total
                           THEN [read EXCEPT !.pc = "return", !.stop = "total"]
                           ELSE IF offset >= acall.results_wanted
                                THEN [read EXCEPT !.pc = "return", !.stop = "results_wanted"]
                                ELSE read
    /\ UNCHANGED <<dbVars, filterVars, runVars, rcall>>

\* The loop is left and rows[:results_wanted] is returned
GupyReturn ==
    /\ \/ GupyAt("return")
       \/ GupyAt("while") /\ acall.rows >= acall.results_wanted
    /\ acall' = [acall EXCEPT !.pc = "done",
                              !.stop = IF @ = "none" THEN "enough_rows" ELSE @,
                              !.out = Sliced(acall.rows, acall.results_wanted)]
    /\ UNCHANGED <<dbVars, filterVars, runVars, rcall>>

\* The scrapers that read one response and loop over items[:results_wanted]
SliceScrapers == {"remoteok", "vagascom", "geekHunter", "trampos", "workana"}

\* scrape_remoteok, scrape_vagascom, scrape_geekHunter, scrape_trampos,
\* scrape_workana: the response holds found items, the loop goes over the
\* first results_wanted of them and may skip one that has no title
ScrapeSliced ==
    /\ acall = <<>>
    /\ \E key \in SliceScrapers, results_wanted \in ResultsWanted, resp \in GupyResponses :
          \E skipped \in {0, 1} :
             LET taken == Sliced(resp.jobs, results_wanted)
             IN  /\ skipped <= taken
                 /\ acall' = ScraperCall("scrape_" \o key, results_wanted,
                                         taken - skipped, 0, 1, resp, "done",
                                         IF resp.kind = "raises" THEN "raises" ELSE "none",
                                         IF resp.kind = "raises" THEN 0 ELSE taken - skipped)
    /\ UNCHANGED <<dbVars, filterVars, runVars, rcall>>

_REDDIT_SUBS == <<"brdev", "remotebrazil", "devBrasil">>

\* The loop of scrape_reddit over _REDDIT_SUBS from the i-th on: posts[i] is
\* the number of posts of that subreddit that hold a job keyword
RECURSIVE RedditLoop(_, _, _, _)
RedditLoop(posts, i, rows, results_wanted) ==
    IF i > Len(_REDDIT_SUBS) \/ rows >= results_wanted
    THEN rows
    ELSE RedditLoop(posts, i + 1, rows + posts[i], results_wanted)

\* scrape_reddit(search_term, results_wanted)
ScrapeReddit ==
    /\ acall = <<>>
    /\ \E results_wanted \in ResultsWanted :
          \E posts \in [1..Len(_REDDIT_SUBS) -> {0, 2, 41}] :
             LET rows == RedditLoop(posts, 1, 0, results_wanted)
             IN  acall' = ScraperCall("scrape_reddit", results_wanted, rows, 0,
                                      Len(_REDDIT_SUBS), NoResponse, "done", "none",
                                      Sliced(rows, results_wanted))
    /\ UNCHANGED <<dbVars, filterVars, runVars, rcall>>

PagingNext ==
    \/ ScrapeGupy
    \/ GupyRequest
    \/ GupyReturn
    \/ ScrapeSliced
    \/ ScrapeReddit

\* The call of scrape_gupy runs on: nothing in it waits for anything but
\* the response of a request with a timeout
PagingFairness == WF_vars(GupyRequest) /\ WF_vars(GupyReturn)

PagingSpec == AdapterInit /\ [][PagingNext]_vars /\ PagingFairness

\* scrape_gupy has sent no more than ceil(results_wanted / limit) requests
\* (none when results_wanted is 0)
RequestsBounded ==
    \/ acall.requests = 0
    \/ acall.limit > 0 /\ (acall.requests - 1) * acall.limit < acall.results_wanted

\* The loop goes on only when the last page was not empty and the offset
\* has reached neither the total reported nor results_wanted
StopsAsSoonAs ==
    (acall.pc = "while" /\ acall.requests > 0) =>
        /\ acall.last.jobs > 0
        /\ acall.offset < acall.last.total
        /\ acall.offset < acall.results_wanted

\* C27: for every results_wanted >= 0 and every sequence of responses each
\* scraper of extra_scrapers returns at most results_wanted rows, and the
\* paging loop of scrape_gupy ends: it stops as soon as a page is empty,
\* the offset reaches the total reported or the offset reaches
\* results_wanted, after at most ceil(results_wanted / min(results_wanted,
\* 40)) requests.
C27_BoundedPaging ==
    /\ [](acall # <<>> =>
            /\ acall.pc = "done" => acall.out <= acall.results_wanted
            /\ acall.op = "scrape_gupy" => (RequestsBounded /\ StopsAsSoonAs))
    /\ GupyAt("while") ~> GupyAt("done")

\* A call of scrape_gupy for 81 rows has ended after three requests, the
\* third having brought the offset to results_wanted, with 81 rows of the
\* 120 read
C27_Witness ==
    /\ GupyAt("done")
    /\ acall.results_wanted = 81
    /\ acall.requests = 3
    /\ acall.stop = "results_wanted"
    /\ acall.rows = 120
    /\ acall.out = 81

\* ---------------------------------------------------------------------
\* Claims on the end of a run, checked under RunSpec
\* ---------------------------------------------------------------------

\* The run has called save_jobs or written a file
Persisted == io.save_jobs # <<>> \/ io.files # <<>>

\* C28: an empty result ends the run without persistence: when the merged
\* DataFrame is empty, or no row is left by apply_all_filters, the run
\* ends with a "no results" outcome, not with the error outcome, and has
\* neither called save_jobs nor written a file.
C28_EmptyEndsWithoutPersistence ==
    /\ io.merge = "empty" => (outcome = "no_results" /\ ~Persisted)
    /\ io.filters = "empty" => (outcome = "no_rows_after_filters" /\ ~Persisted)

\* A run of the window whose tasks brought rows has ended with no row
\* left by the filters
C28_Witness ==
    /\ frontend = "gui"
    /\ phase = "idle"
    /\ merged # <<>>
    /\ io.filters = "empty"
    /\ outcome = "no_rows_after_filters"

\* The work of a started run goes on: a thread that can take a step takes
\* one (the requests of the adapters have timeouts)
RunFairness ==
    /\ WF_vars(BuildTasks)
    /\ WF_vars(StartTask)
    /\ WF_vars(FetchReturns)
    /\ WF_vars(FetchRaises)
    /\ WF_vars(AcquireLock)
    /\ WF_vars(StoreCount)
    /\ WF_vars(EmitProgress)
    /\ WF_vars(Merge)
    /\ WF_vars(Enrich)
    /\ WF_vars(ApplyFilters)
    /\ WF_vars(SaveHistory)
    /\ WF_vars(ExportFile)
    /\ WF_vars(Finally)

RunLiveSpec == RunInit /\ [][RunNext]_vars /\ RunFairness

\* A step that is a press of the search button
IsPress == io'.presses # io.presses

\* C29: the single-run guard: at most one run is in progress; a press
\* while is_running is true starts no thread and changes no state; a
\* press rejected by the validation leaves is_running false; and every
\* started run, whatever its way out, in the end puts is_running back to
\* false and sys.stdout back, so that a later press can start a run.
C29_SingleRunGuard ==
    /\ [](io.runs <= 1)
    /\ [][(IsPress /\ is_running) =>
             /\ io' = Pressed(io)
             /\ UNCHANGED <<frontend, is_running, press, params, phase, outcome, runLocals,
                            dbVars, filterVars, acall, rcall>>]_vars
    /\ [][(IsPress /\ press'.result \in {"no_term", "no_source"}) => ~is_running']_vars
    /\ is_running ~> (~is_running /\ io.runs = 0 /\ io.stdout = "console")
    /\ [](phase = "idle" => (~is_running /\ io.stdout = "console"))

\* A run that ended in except has put is_running and sys.stdout back
C29_Witness ==
    /\ frontend = "gui"
    /\ outcome = "error"
    /\ phase = "idle"
    /\ io.save_jobs # <<>>
    /\ ~is_running
    /\ io.stdout = "console"

\* ---------------------------------------------------------------------
\* A further claim on filters.py, checked under FilterSpec
\* ---------------------------------------------------------------------

\* a is b with some of its elements left out
RECURSIVE IsSubSeq(_, _)
IsSubSeq(a, b) ==
    IF a = <<>> THEN TRUE
    ELSE IF b = <<>> THEN FALSE
    ELSE IF Head(a) = Head(b) THEN IsSubSeq(Tail(a), Tail(b))
    ELSE IsSubSeq(a, Tail(b))

\* The rows of job boards and the rows of posts of a DataFrame with the
\* column site
JobRows(df) == SelectSeq(df.rows, LAMBDA row : ~IsPost(row))
PostRows(df) == SelectSeq(df.rows, IsPost)

\* The rows of out are rows of df: those of job boards first, then those of
\* posts, each group in the order it has in df
GroupedInOrder(out, df) ==
    IF "site" \in df.columns
    THEN /\ out.rows = JobRows(out) \o PostRows(out)
         /\ IsSubSeq(JobRows(out), JobRows(df))
         /\ IsSubSeq(PostRows(out), PostRows(df))
    ELSE IsSubSeq(out.rows, df.rows)

\* C30: apply_all_filters is idempotent: applied with the same options to
\* its own result it returns that result, row for row and in the same
\* order (the rows of job boards first, then the rows of posts, each group
\* in the order of the input).
C30_ApplyAllIdempotent ==
    fcall.fn = "apply_all_filters" =>
        /\ apply_all_filters(fcall.out, fcall.skills, fcall.remote_only, fcall.seniority)
              = fcall.out
        /\ GroupedInOrder(fcall.out, fcall.df)

\* A call that moved a row of a job board before a row of posts and left
\* out a row: its result is not its argument
C30_Witness ==
    /\ fcall.fn = "apply_all_filters"
    /\ "site" \in fcall.df.columns
    /\ Len(fcall.out.rows) >= 2
    /\ Len(fcall.out.rows) < Len(fcall.df.rows)
    /\ IsPost(fcall.df.rows[1])
    /\ ~IsPost(fcall.out.rows[1])
    /\ IsPost(fcall.out.rows[Len(fcall.out.rows)])

====
